---------------------------- MODULE Spec2Model ----------------------------
(***************************************************************************)
(* A model of the minigolf track/map codec: the Tile codec (tile.rs), the  *)
(* run-length compressor and the map grid decoder (map.rs).                *)
(*                                                                         *)
(* Characters are one-character strings, strings are sequences of          *)
(* characters.  Option values are sequences of length at most one,         *)
(* Result values are records with an "ok" flag.                            *)
(***************************************************************************)
EXTENDS Integers, Sequences, FiniteSets, TLC

VARIABLES
    tile,          \* tile.rs: the Tile handed to to_tile_code (an Option)
    tile_code,     \* tile.rs: the i32 handed to from_tile_code (an Option)
    fields,        \* tile.rs: the four i32 handed to from_i32s, or the bytes packed into tile_code
    tile_result,   \* tile.rs: the Result of from_tile_code / from_i32s (an Option)
    tile_pc,       \* which Tile codec function runs next
    rle_input,     \* map.rs: the string handed to compress
    rle_compressed,\* map.rs: the string compress returned
    rle_output,    \* map.rs: the string decompress returned
    rle_pc,        \* which of compress / decompress runs next
    ch,            \* map.rs: the character handed to char_to_code
    ch_code,       \* map.rs: the Option char_to_code returned
    ch_pc,         \* whether char_to_code has run
    iter,          \* map.rs decode: the characters s.chars() has not yielded yet
    x,             \* map.rs decode: the loop variable x
    y,             \* map.rs decode: the loop variable y
    map,           \* map.rs decode: the local map
    decode_result, \* map.rs decode: the Result returned (an Option)
    decode_pc,     \* map.rs decode: in the loop, or returned
    written,       \* history: the cells (row-major, from 0) this decode has called set_tile on
    lines,         \* track.rs from_reader: the lines not read yet
    track,         \* track.rs from_reader: the local track
    track_result,  \* track.rs from_reader: the Result returned (an Option)
    track_pc,      \* track.rs from_reader: in the loop, or returned
    file,          \* history: all the lines of the reader
    ad_input,      \* map.rs Ad::from_string: the input string
    ad_pos,        \* map.rs Ad::from_string: the characters of the chunks read so far
    ads,           \* map.rs Ad::from_string: the local ads
    ad_result,     \* map.rs Ad::from_string: the Result returned (an Option)
    ad_pc,         \* map.rs Ad::from_string: in the loop, or returned
    magnets,       \* magnet.rs: the magnets handed to calculate_forces
    forces,        \* magnet.rs: MagnetForces.forces (an Option until calculated)
    px,            \* magnet.rs: the x handed to get_force
    py,            \* magnet.rs: the y handed to get_force
    force,         \* magnet.rs: the Option get_force returned (an Option of it)
    magnet_pc,     \* which of calculate_forces / get_force runs next
    mode,          \* stroke.rs: the current ShootingMode
    mode_start,    \* history: the ShootingMode before the first next()
    mode_steps     \* history: how many times next() was applied

tile_vars == <<tile, tile_code, fields, tile_result, tile_pc>>

rle_vars == <<rle_input, rle_compressed, rle_output, rle_pc>>

ch_vars == <<ch, ch_code, ch_pc>>

decode_vars == <<iter, x, y, map, decode_result, decode_pc, written>>

track_vars == <<lines, track, track_result, track_pc, file>>

ad_vars == <<ad_input, ad_pos, ads, ad_result, ad_pc>>

magnet_vars == <<magnets, forces, px, py, force, magnet_pc>>

mode_vars == <<mode, mode_start, mode_steps>>

\* the components after the track parser
later_vars == <<ad_vars, magnet_vars, mode_vars>>

vars == <<tile_vars, rle_vars, ch_vars, decode_vars, track_vars, later_vars>>

not_tile_vars == <<rle_vars, ch_vars, decode_vars, track_vars, later_vars>>

not_rle_vars == <<tile_vars, ch_vars, decode_vars, track_vars, later_vars>>

not_ch_vars == <<tile_vars, rle_vars, decode_vars, track_vars, later_vars>>

not_decode_vars == <<tile_vars, rle_vars, ch_vars, track_vars, later_vars>>

not_track_vars == <<tile_vars, rle_vars, ch_vars, decode_vars, later_vars>>

\* the components before the ad parser
earlier_vars == <<tile_vars, rle_vars, ch_vars, decode_vars, track_vars>>

not_ad_vars == <<earlier_vars, magnet_vars, mode_vars>>

not_magnet_vars == <<earlier_vars, ad_vars, mode_vars>>

not_mode_vars == <<earlier_vars, ad_vars, magnet_vars>>

-----------------------------------------------------------------------------
(* Option and Result *)

None == <<>>

Some(v) == <<v>>

Ok(v) == [ok |-> TRUE, val |-> v]

Err(e) == [ok |-> FALSE, err |-> e]

-----------------------------------------------------------------------------
(* i32 arithmetic *)

Pow2(n) ==
    CASE n = 7 -> 128 [] n = 8 -> 256 [] n = 15 -> 32768 [] n = 16 -> 65536
      [] n = 23 -> 8388608 [] n = 24 -> 16777216

\* a >> n on i32: an arithmetic shift, rounding towards minus infinity
\* (\div rounds towards minus infinity)
Shr(a, n) == a \div Pow2(n)

\* a % b on i32 for b > 0: the remainder has the sign of the dividend
Rem(a, b) == IF a >= 0 \/ a % b = 0 THEN a % b ELSE (a % b) - b

\* a << n on i32 (n in {8, 16, 24}): the low 32-n bits of a move up, the
\* highest of them becomes the sign bit
Shl(a, n) ==
    LET low == a % Pow2(32 - n)
    IN  IF low >= Pow2(31 - n) THEN (low - Pow2(32 - n)) * Pow2(n) ELSE low * Pow2(n)

\* a | b on i32, bit by bit on the two's complement patterns
RECURSIVE BitOr(_, _)
BitOr(a, b) ==
    IF a = 0 THEN b
    ELSE IF b = 0 THEN a
    ELSE IF a = -1 \/ b = -1 THEN -1
    ELSE (IF a % 2 = 1 \/ b % 2 = 1 THEN 1 ELSE 0) + 2 * BitOr(a \div 2, b \div 2)

-----------------------------------------------------------------------------
(* tile.rs: the enumerations, in declaration order *)

Special == <<
    "StartPosition", "Hole", "FakeHole", "MoveableBlock", "Mine", "BlownMine",
    "BigMine", "BlownBigMine", "BlueTeleportStart", "BlueTeleportExit",
    "RedTeleportStart", "RedTeleportExit", "YellowTeleportStart",
    "YellowTeleportExit", "GreenTeleportStart", "GreenTeleportExit",
    "FullBreakable", "ThreeQuaterBreakable", "HalfBreakable", "QuaterBreakable",
    "MagnetAttract", "MagnetRepel", "MoveableBlock2", "SunkMoveableBlock",
    "StartPositionBlue", "StartPositionRed", "StartPositionYellow",
    "StartPositionGreen" >>

Element == <<
    "Grass", "Dirt", "Mud", "Ice", "SpeedN", "SpeedNE", "SpeedE", "SpeedSE",
    "SpeedS", "SpeedSW", "SpeedW", "SpeedNW", "Water", "Acid", "WaterSwamp",
    "AcidSwamp", "Block", "StickyBlock", "BouncyBlock", "FakeBlock", "OnewayN",
    "OnewayE", "OnewayS", "OnewayW" >>

Shape == <<
    "Blank", "BigCircle", "SmallCircle", "Diamond", "TriangleSE", "TriangleSW",
    "TriangleNW", "TriangleNE", "RoundedSE", "RoundedSW", "RoundedNW",
    "RoundedNE", "RoundedS", "RoundedE", "RoundedN", "RoundedW", "TriangleN",
    "TriangleE", "TriangleS", "TriangleW", "TriangleNS", "TriangleWE", "HalfW",
    "HalfS", "QuaterNE", "QuaterSE", "QuaterSW", "QuaterNW" >>

\* #[derive(FromPrimitive)] on a field-less enum: discriminant v names the
\* (v+1)-th variant, anything else is None
from_i32(enum, v) == IF v >= 0 /\ v < Len(enum) THEN Some(enum[v + 1]) ELSE None

\* `variant as i32`: the discriminant of a variant
as_i32(enum, variant) == (CHOOSE i \in 1..Len(enum) : enum[i] = variant) - 1

\* SpecialParse has explicit discriminants Normal = 1, Special = 2
SpecialParse_from_i32(v) ==
    IF v = 1 THEN Some("Normal") ELSE IF v = 2 THEN Some("Special") ELSE None

SpecialParse_as_i32(p) == IF p = "Normal" THEN 1 ELSE 2

Tile(special, shape, background, foreground) ==
    [special |-> special, shape |-> shape,
     background |-> background, foreground |-> foreground]

InvalidSpecial(v) == <<"InvalidSpecial", v>>

InvalidShape(v) == <<"InvalidShape", v>>

InvalidBackground(v) == <<"InvalidBackground", v>>

InvalidForeground(v) == <<"InvalidForeground", v>>

-----------------------------------------------------------------------------
(* tile.rs: the Tile codec *)

\* from_i32s leaving a Blank shape next to the special
from_i32s_both(special_value, shape_value, background_value, foreground_value) ==
    LET special_parse == SpecialParse_from_i32(special_value)
        background    == from_i32(Element, background_value)
        foreground    == from_i32(Element, foreground_value)
    IN  IF special_parse = None THEN Err(InvalidSpecial(special_value))
        ELSE IF background = None THEN Err(InvalidBackground(background_value))
        ELSE IF foreground = None THEN Err(InvalidForeground(foreground_value))
        ELSE IF special_parse = Some("Normal")
             THEN IF from_i32(Shape, shape_value) = None
                  THEN Err(InvalidShape(shape_value))
                  ELSE Ok(Tile(None, from_i32(Shape, shape_value),
                               background[1], foreground[1]))
             ELSE IF from_i32(Special, shape_value) = None
                  THEN Err(InvalidShape(shape_value))
                  ELSE Ok(Tile(from_i32(Special, shape_value), Some("Blank"),
                               background[1], foreground[1]))

\* from_i32s checking the foreground before the background
from_i32s_fg_first(special_value, shape_value, background_value, foreground_value) ==
    LET special_parse == SpecialParse_from_i32(special_value)
        background    == from_i32(Element, background_value)
        foreground    == from_i32(Element, foreground_value)
    IN  IF special_parse = None THEN Err(InvalidSpecial(special_value))
        ELSE IF foreground = None THEN Err(InvalidForeground(foreground_value))
        ELSE IF background = None THEN Err(InvalidBackground(background_value))
        ELSE IF special_parse = Some("Normal")
             THEN IF from_i32(Shape, shape_value) = None
                  THEN Err(InvalidShape(shape_value))
                  ELSE Ok(Tile(None, from_i32(Shape, shape_value),
                               background[1], foreground[1]))
             ELSE IF from_i32(Special, shape_value) = None
                  THEN Err(InvalidShape(shape_value))
                  ELSE Ok(Tile(from_i32(Special, shape_value), None,
                               background[1], foreground[1]))

from_i32s(special_value, shape_value, background_value, foreground_value) ==
    LET special_parse == SpecialParse_from_i32(special_value)
        background    == from_i32(Element, background_value)
        foreground    == from_i32(Element, foreground_value)
    IN  IF special_parse = None THEN Err(InvalidSpecial(special_value))
        ELSE IF background = None THEN Err(InvalidBackground(background_value))
        ELSE IF foreground = None THEN Err(InvalidForeground(foreground_value))
        ELSE IF special_parse = Some("Normal")
             THEN IF from_i32(Shape, shape_value) = None
                  THEN Err(InvalidShape(shape_value))
                  ELSE Ok(Tile(None, from_i32(Shape, shape_value),
                               background[1], foreground[1]))
             ELSE IF from_i32(Special, shape_value) = None
                  THEN Err(InvalidShape(shape_value))
                  ELSE Ok(Tile(from_i32(Special, shape_value), None,
                               background[1], foreground[1]))

from_tile_code(code) ==
    LET special_value    == Shr(code, 24)
        shape_value      == Rem(Shr(code, 16), 256)
        background_value == Rem(Shr(code, 8), 256)
        foreground_value == Rem(code, 256)
        special_parse    == SpecialParse_from_i32(special_value)
        background       == from_i32(Element, background_value)
        foreground       == from_i32(Element, foreground_value)
    IN  IF special_parse = None THEN Err(InvalidSpecial(special_value))
        ELSE IF background = None THEN Err(InvalidBackground(background_value))
        ELSE IF foreground = None THEN Err(InvalidForeground(foreground_value))
        ELSE IF special_parse = Some("Normal")
             THEN IF from_i32(Shape, shape_value) = None
                  THEN Err(InvalidShape(shape_value))
                  ELSE Ok(Tile(None, from_i32(Shape, shape_value),
                               background[1], foreground[1]))
             ELSE IF from_i32(Special, shape_value) = None
                  THEN Err(InvalidShape(shape_value))
                  ELSE Ok(Tile(from_i32(Special, shape_value), None,
                               background[1], foreground[1]))

\* to_tile_code with the shape and background bytes exchanged
to_tile_code_swapped(t) ==
    LET special    == IF t.special = None
                      THEN SpecialParse_as_i32("Normal")
                      ELSE SpecialParse_as_i32("Special")
        shape      == IF t.special = None
                      THEN as_i32(Shape, t.shape[1])
                      ELSE as_i32(Special, t.special[1])
        background == as_i32(Element, t.background)
        foreground == as_i32(Element, t.foreground)
    IN  BitOr(BitOr(BitOr(Shl(special, 24), Shl(shape, 8)), Shl(background, 16)),
              foreground)

to_tile_code(t) ==
    LET special    == IF t.special = None
                      THEN SpecialParse_as_i32("Normal")
                      ELSE SpecialParse_as_i32("Special")
        shape      == IF t.special = None
                      THEN as_i32(Shape, t.shape[1])
                      ELSE as_i32(Special, t.special[1])
        background == as_i32(Element, t.background)
        foreground == as_i32(Element, t.foreground)
    IN  BitOr(BitOr(BitOr(Shl(special, 24), Shl(shape, 16)), Shl(background, 8)),
              foreground)

\* impl Default for Tile
Tile_default == Tile(None, Some("Blank"), "Grass", "Grass")

-----------------------------------------------------------------------------
(* The Tile codec applied to bounded inputs *)

Range(seq) == {seq[i] : i \in 1..Len(seq)}

\* Shape and Special have the same number of variants
MaxOrdinal == Len(Shape)

\* the Tile with exactly one of special / shape populated: the v-th Shape
\* (p = "Normal") or the v-th Special (p = "Special")
ValidTile(p, v, bg, fg) ==
    IF p = "Normal" THEN Tile(None, Some(Shape[v + 1]), bg, fg)
                    ELSE Tile(Some(Special[v + 1]), None, bg, fg)

\* byte fields <<top, secondary, background, foreground>> of raw tile codes
\* around the edges of the valid ranges; the top byte is signed
RawBytes == {-128, -1, 0, 1, 2, 3, 127} \X {0, 27, 28, 255} \X {0, 23, 24, 255}
                \X {0, 23, 24, 255}

\* the i32 whose four bytes are b
PackBytes(b) == b[1] * 16777216 + b[2] * 65536 + b[3] * 256 + b[4]

\* arguments of from_i32s around the edges of the valid ranges
RawFields == {-1, 0, 1, 2, 3} \X {-1, 0, 27, 28, 51} \X {-1, 0, 23, 24, 51}
                \X {-1, 0, 23, 24, 51}

TileInit ==
    /\ tile_result = None
    /\ \/ \E p \in {"Normal", "Special"}, v \in 0..(MaxOrdinal - 1),
             bg \in Range(Element), fg \in Range(Element) :
            /\ tile = Some(ValidTile(p, v, bg, fg))
            /\ tile_code = None
            /\ fields = <<>>
            /\ tile_pc = "to_tile_code"
       \/ \E b \in RawBytes :
            /\ tile = None
            /\ tile_code = Some(PackBytes(b))
            /\ fields = b
            /\ tile_pc = "from_tile_code"
       \/ \E f \in RawFields :
            /\ tile = None
            /\ tile_code = None
            /\ fields = f
            /\ tile_pc = "from_i32s"

ToTileCode ==
    /\ tile_pc = "to_tile_code"
    /\ tile_code' = Some(to_tile_code(tile[1]))
    /\ tile_pc' = "from_tile_code"
    /\ UNCHANGED <<tile, fields, tile_result>>
    /\ UNCHANGED not_tile_vars

FromTileCode ==
    /\ tile_pc = "from_tile_code"
    /\ tile_result' = Some(from_tile_code(tile_code[1]))
    /\ tile_pc' = "done"
    /\ UNCHANGED <<tile, fields, tile_code>>
    /\ UNCHANGED not_tile_vars

FromI32s ==
    /\ tile_pc = "from_i32s"
    /\ tile_result' = Some(from_i32s(fields[1], fields[2], fields[3], fields[4]))
    /\ tile_pc' = "done"
    /\ UNCHANGED <<tile, fields, tile_code>>
    /\ UNCHANGED not_tile_vars

TileNext == ToTileCode \/ FromTileCode \/ FromI32s

-----------------------------------------------------------------------------
(* map.rs: characters *)

\* the printable ASCII characters, from code point 32 to 126; "grave" stands
\* for the grave accent (code point 96), which a string literal cannot hold
Ascii == <<
    " ", "!", "\"", "#", "$", "%", "&", "'", "(", ")", "*", "+", ",", "-", ".", "/",
    "0", "1", "2", "3", "4", "5", "6", "7", "8", "9", ":", ";", "<", "=", ">", "?",
    "@", "A", "B", "C", "D", "E", "F", "G", "H", "I", "J", "K", "L", "M", "N", "O",
    "P", "Q", "R", "S", "T", "U", "V", "W", "X", "Y", "Z", "[", "\\", "]", "^", "_",
    "grave", "a", "b", "c", "d", "e", "f", "g", "h", "i", "j", "k", "l", "m", "n", "o",
    "p", "q", "r", "s", "t", "u", "v", "w", "x", "y", "z", "{", "|", "}", "~" >>

Chars == Range(Ascii)

\* the code point of every character of the table
CodePoint == [c \in Chars |-> 31 + (CHOOSE i \in 1..Len(Ascii) : Ascii[i] = c)]

\* `c as i32`
Ord(c) == CodePoint[c]

\* char::is_digit(10)
is_digit(c) == Ord("0") <= Ord(c) /\ Ord(c) <= Ord("9")

\* char_to_code adding 25 instead of 26 to the lower-case letters
char_to_code_off_by_one(c) ==
    IF Ord("a") <= Ord(c) /\ Ord(c) <= Ord("z") THEN Some(Ord(c) - Ord("a") + 25)
    ELSE IF Ord("A") <= Ord(c) /\ Ord(c) <= Ord("Z") THEN Some(Ord(c) - Ord("A"))
    ELSE None

char_to_code(c) ==
    IF Ord("a") <= Ord(c) /\ Ord(c) <= Ord("z") THEN Some(Ord(c) - Ord("a") + 26)
    ELSE IF Ord("A") <= Ord(c) /\ Ord(c) <= Ord("Z") THEN Some(Ord(c) - Ord("A"))
    ELSE None

CharInit == ch \in Chars /\ ch_code = None /\ ch_pc = "char_to_code"

CharToCode ==
    /\ ch_pc = "char_to_code"
    /\ ch_code' = Some(char_to_code(ch))
    /\ ch_pc' = "done"
    /\ UNCHANGED ch
    /\ UNCHANGED not_ch_vars

CharNext == CharToCode

-----------------------------------------------------------------------------
(* map.rs: the run-length compressor *)

\* usize::to_string: the decimal digits of n, no sign, no leading zero
RECURSIVE to_string(_)
to_string(n) ==
    IF n < 10 THEN <<Ascii[Ord("0") - 31 + n]>>
    ELSE Append(to_string(n \div 10), Ascii[Ord("0") - 31 + (n % 10)])

\* the value of a non-empty string of decimal digits
RECURSIVE DigitsValue(_)
DigitsValue(s) ==
    IF Len(s) = 0 THEN 0
    ELSE 10 * DigitsValue(SubSeq(s, 1, Len(s) - 1)) + (Ord(s[Len(s)]) - Ord("0"))

\* str::parse::<usize> on a string that holds digits only (the only strings
\* decompress parses): Err on the empty string, the decimal value otherwise
parse_usize(s) == IF Len(s) = 0 THEN Err("ParseIntError") ELSE Ok(DigitsValue(s))

\* Result::unwrap_or
unwrap_or(r, d) == IF r.ok THEN r.val ELSE d

\* String::repeat
repeat(c, n) == [i \in 1..n |-> c]

\* the loop of decompress from character i on, with the locals output and count
RECURSIVE decompress_from(_, _, _, _)
decompress_from(input, i, output, count) ==
    IF i > Len(input) THEN output
    ELSE IF is_digit(input[i])
         THEN decompress_from(input, i + 1, output, Append(count, input[i]))
         ELSE decompress_from(input, i + 1,
                  output \o repeat(input[i], unwrap_or(parse_usize(count), 1)),
                  <<>>)

\* decompress without count.clear() after a repeated character
RECURSIVE decompress_no_clear_from(_, _, _, _)
decompress_no_clear_from(input, i, output, count) ==
    IF i > Len(input) THEN output
    ELSE IF is_digit(input[i])
         THEN decompress_no_clear_from(input, i + 1, output, Append(count, input[i]))
         ELSE decompress_no_clear_from(input, i + 1,
                  output \o repeat(input[i], unwrap_or(parse_usize(count), 1)),
                  count)

decompress_no_clear(input) == decompress_no_clear_from(input, 1, <<>>, <<>>)

decompress(input) == decompress_from(input, 1, <<>>, <<>>)

\* the loop of compress from index i (counted from 1) on, with the locals
\* compressed_string and count
RECURSIVE compress_from(_, _, _, _)
compress_from(chars, i, compressed_string, count) ==
    IF i > Len(chars) THEN compressed_string
    ELSE IF i + 1 <= Len(chars) /\ chars[i] = chars[i + 1]
         THEN compress_from(chars, i + 1, compressed_string, count + 1)
         ELSE compress_from(chars, i + 1,
                  (IF count > 1 THEN compressed_string \o to_string(count)
                                ELSE compressed_string) \o <<chars[i]>>,
                  1)

compress(input) == compress_from(input, 1, <<>>, 1)

-----------------------------------------------------------------------------
(* The compressor applied to bounded inputs *)

\* the number of runs an input string is put together from
MaxRuns == 2

\* the longest run; runs of 10 and more have a two-digit length
MaxRunLen == 11

\* two letters, a token letter of the map stream and a digit
RleAlphabet == {"a", "b", "D", "7"}

\* the strings made of at most n runs over RleAlphabet
RECURSIVE RleStrings(_)
RleStrings(n) ==
    IF n = 0 THEN {<<>>}
    ELSE RleStrings(n - 1) \cup
         {s \o repeat(c, k) : s \in RleStrings(n - 1), c \in RleAlphabet, k \in 1..MaxRunLen}

RleInit ==
    /\ rle_input \in RleStrings(MaxRuns)
    /\ rle_compressed = <<>>
    /\ rle_output = <<>>
    /\ rle_pc = "compress"

Compress ==
    /\ rle_pc = "compress"
    /\ rle_compressed' = compress(rle_input)
    /\ rle_pc' = "decompress"
    /\ UNCHANGED <<rle_input, rle_output>>
    /\ UNCHANGED not_rle_vars

Decompress ==
    /\ rle_pc = "decompress"
    /\ rle_output' = decompress(rle_compressed)
    /\ rle_pc' = "done"
    /\ UNCHANGED <<rle_input, rle_compressed>>
    /\ UNCHANGED not_rle_vars

RleNext == Compress \/ Decompress

-----------------------------------------------------------------------------
(* map.rs: the Map and the grid decoder *)

HEIGHT == 25

WIDTH == 49

\* MapError
OutOfBounds == <<"OutOfBounds">>

Unexpected(c) == <<"Unexpected", c>>

UnexpectedEol == <<"UnexpectedEol">>

\* #[from] TileCreationError
TileCreationError(e) == <<"TileCreationError", e>>

\* Map::new: WIDTH * HEIGHT default tiles in row-major order, no ads
Map_new == [tiles |-> [i \in 1..(WIDTH * HEIGHT) |-> Tile_default], ads |-> <<>>]

\* tiles[y * WIDTH + x] of the source is tiles[y * WIDTH + x + 1] here
set_tile(m, tx, ty, t) ==
    IF tx < WIDTH /\ ty < HEIGHT
    THEN Ok([m EXCEPT !.tiles[ty * WIDTH + tx + 1] = t])
    ELSE Err(OutOfBounds)

get_tile(m, tx, ty) ==
    IF tx < WIDTH /\ ty < HEIGHT THEN Some(m.tiles[ty * WIDTH + tx + 1]) ELSE None

\* get_offset with the two offsets of every letter exchanged
get_offset_swapped(cur) ==
    CASE cur = "D" -> <<1, 0>>
      [] cur = "E" -> <<0, 1>>
      [] cur = "F" -> <<1, 1>>
      [] cur = "G" -> <<2, 0>>
      [] cur = "H" -> <<0, 2>>
      [] cur = "I" -> <<2, 2>>
      [] OTHER -> <<0, 0>>

\* the pair (offset_y, offset_x) of a back-reference letter
get_offset(cur) ==
    CASE cur = "D" -> <<0, 1>>
      [] cur = "E" -> <<1, 0>>
      [] cur = "F" -> <<1, 1>>
      [] cur = "G" -> <<0, 2>>
      [] cur = "H" -> <<2, 0>>
      [] cur = "I" -> <<2, 2>>
      [] OTHER -> <<0, 0>>

\* usize::checked_sub
checked_sub(a, b) == IF a >= b THEN Some(a - b) ELSE None

\* the outcome of one loop iteration: the iterator and the map after it, and
\* the error it returned with, if any
Continue(it, m) == [iter |-> it, map |-> m, err |-> None]

Fail(it, e) == [iter |-> it, map |-> None, err |-> Some(e)]

\* the arm 'A' | 'C' reporting the token letter for a trailing character
\* that has no code
decode_AC_blames_token(cur, it, cx, cy, m) ==
    IF Len(it) < 2 THEN Fail(<<>>, UnexpectedEol)
    ELSE LET a == it[1]
             b == it[2]
             rest == SubSeq(it, 3, Len(it))
             a_code == char_to_code(a)
             b_code == char_to_code(b)
             cur_code == char_to_code(cur)
         IN  IF a_code = None THEN Fail(rest, Unexpected(cur))
             ELSE IF b_code = None THEN Fail(rest, Unexpected(cur))
             ELSE IF cur_code = None THEN Fail(rest, Unexpected(b))
             ELSE LET t == from_i32s(cur_code[1], a_code[1], b_code[1], 0)
                  IN  IF ~t.ok THEN Fail(rest, TileCreationError(t.err))
                      ELSE LET r == set_tile(m, cx, cy, t.val)
                           IN  IF r.ok THEN Continue(rest, r.val) ELSE Fail(rest, r.err)

\* the arm 'A' | 'C' of the match, `it` being the iterator after cur
decode_AC(cur, it, cx, cy, m) ==
    IF Len(it) < 2 THEN Fail(<<>>, UnexpectedEol)
    ELSE LET a == it[1]
             b == it[2]
             rest == SubSeq(it, 3, Len(it))
             a_code == char_to_code(a)
             b_code == char_to_code(b)
             cur_code == char_to_code(cur)
         IN  IF a_code = None THEN Fail(rest, Unexpected(a))
             ELSE IF b_code = None THEN Fail(rest, Unexpected(b))
             ELSE IF cur_code = None THEN Fail(rest, Unexpected(b))
             ELSE LET t == from_i32s(cur_code[1], a_code[1], b_code[1], 0)
                  IN  IF ~t.ok THEN Fail(rest, TileCreationError(t.err))
                      ELSE LET r == set_tile(m, cx, cy, t.val)
                           IN  IF r.ok THEN Continue(rest, r.val) ELSE Fail(rest, r.err)

\* the arm 'B' reading two characters and a zero foreground, as 'A' | 'C' does
decode_B_two_chars(cur, it, cx, cy, m) ==
    IF Len(it) < 2 THEN Fail(<<>>, UnexpectedEol)
    ELSE LET a == it[1]
             b == it[2]
             rest == SubSeq(it, 3, Len(it))
             a_code == char_to_code(a)
             b_code == char_to_code(b)
             cur_code == char_to_code(cur)
         IN  IF a_code = None THEN Fail(rest, Unexpected(a))
             ELSE IF b_code = None THEN Fail(rest, Unexpected(b))
             ELSE IF cur_code = None THEN Fail(rest, Unexpected(b))
             ELSE LET t == from_i32s(cur_code[1], a_code[1], b_code[1], 0)
                  IN  IF ~t.ok THEN Fail(rest, TileCreationError(t.err))
                      ELSE LET r == set_tile(m, cx, cy, t.val)
                           IN  IF r.ok THEN Continue(rest, r.val) ELSE Fail(rest, r.err)

\* the arm 'B' of the match
decode_B(cur, it, cx, cy, m) ==
    IF Len(it) < 3 THEN Fail(<<>>, UnexpectedEol)
    ELSE LET a == it[1]
             b == it[2]
             c == it[3]
             rest == SubSeq(it, 4, Len(it))
             a_code == char_to_code(a)
             b_code == char_to_code(b)
             c_code == char_to_code(c)
             cur_code == char_to_code(cur)
         IN  IF a_code = None THEN Fail(rest, Unexpected(a))
             ELSE IF b_code = None THEN Fail(rest, Unexpected(b))
             ELSE IF c_code = None THEN Fail(rest, Unexpected(c))
             ELSE IF cur_code = None THEN Fail(rest, Unexpected(b))
             ELSE LET t == from_i32s(cur_code[1], a_code[1], b_code[1], c_code[1])
                  IN  IF ~t.ok THEN Fail(rest, TileCreationError(t.err))
                      ELSE LET r == set_tile(m, cx, cy, t.val)
                           IN  IF r.ok THEN Continue(rest, r.val) ELSE Fail(rest, r.err)

\* the arm 'D' | 'E' | 'F' | 'G' | 'H' | 'I' of the match
decode_backref(cur, it, cx, cy, m) ==
    LET offset_y == get_offset(cur)[1]
        offset_x == get_offset(cur)[2]
        new_y == checked_sub(cy, offset_y)
        new_x == checked_sub(cx, offset_x)
    IN  IF new_y = None THEN Fail(it, OutOfBounds)
        ELSE IF new_x = None THEN Fail(it, OutOfBounds)
        ELSE LET src == get_tile(m, new_x[1], new_y[1])
             IN  IF src = None THEN Fail(it, OutOfBounds)
                 ELSE LET r == set_tile(m, cx, cy, src[1])
                      IN  IF r.ok THEN Continue(it, r.val) ELSE Fail(it, r.err)

\* the loop body treating the end of the stream as an error
decode_cell_strict(it, cx, cy, m) ==
    IF Len(it) = 0 THEN Fail(it, UnexpectedEol)
    ELSE LET cur == Head(it)
         IN  IF cur \in {"A", "C"} THEN decode_AC(cur, Tail(it), cx, cy, m)
             ELSE IF cur = "B" THEN decode_B(cur, Tail(it), cx, cy, m)
             ELSE IF cur \in {"D", "E", "F", "G", "H", "I"}
                  THEN decode_backref(cur, Tail(it), cx, cy, m)
             ELSE Fail(Tail(it), Unexpected(cur))

\* the body of the two nested loops for one (x, y)
decode_cell(it, cx, cy, m) ==
    IF Len(it) = 0 THEN Continue(it, m)
    ELSE LET cur == Head(it)
         IN  IF cur \in {"A", "C"} THEN decode_AC(cur, Tail(it), cx, cy, m)
             ELSE IF cur = "B" THEN decode_B(cur, Tail(it), cx, cy, m)
             ELSE IF cur \in {"D", "E", "F", "G", "H", "I"}
                  THEN decode_backref(cur, Tail(it), cx, cy, m)
             ELSE Fail(Tail(it), Unexpected(cur))

-----------------------------------------------------------------------------
(* The streams the decoder is run on *)

\* the letter with code n
Letters == <<
    "A", "B", "C", "D", "E", "F", "G", "H", "I", "J", "K", "L", "M",
    "N", "O", "P", "Q", "R", "S", "T", "U", "V", "W", "X", "Y", "Z",
    "a", "b", "c", "d", "e", "f", "g", "h", "i", "j", "k", "l", "m",
    "n", "o", "p", "q", "r", "s", "t", "u", "v", "w", "x", "y", "z" >>

\* probes are placed at the cells (x, y) with x, y <= MaxProbe, where every
\* back-reference offset (1 and 2, in each axis) both underflows and resolves
MaxProbe == 2

\* the token of cell i (row-major, from 0) in the base stream: in the corner
\* x, y <= MaxProbe an inline token, a different tile in every cell,
\* alternately a Normal ('B') and a Special ('C') one; elsewhere a copy of
\* the tile to the left ('D') or, in the first columns, of the tile above ('E')
BaseToken(i) ==
    LET cx == i % WIDTH
        cy == i \div WIDTH
        n  == cy * (MaxProbe + 1) + cx
    IN  IF cx <= MaxProbe /\ cy <= MaxProbe
        THEN IF n % 2 = 0
             THEN <<"B", Letters[n + 2], Letters[cx + 2], Letters[cy + 3]>>
             ELSE <<"C", Letters[n + 1], Letters[cx + cy + 1]>>
        ELSE IF cx > MaxProbe THEN <<"D">> ELSE <<"E">>

\* the base stream for the cells i .. k-1
RECURSIVE BaseStream(_, _)
BaseStream(i, k) == IF i >= k THEN <<>> ELSE BaseToken(i) \o BaseStream(i + 1, k)

\* the cells a probe is placed at
ProbeCells == {cy * WIDTH + cx : cx \in 0..MaxProbe, cy \in 0..MaxProbe}

\* the cells the inline tokens are probed at: the first cell and the last probe cell
InlineCells == {0, MaxProbe * WIDTH + MaxProbe}

\* what may follow an inline token letter: up to three characters, each a
\* code in range, a code out of range or no letter at all
Trailing ==
    LET ta == {"b", "c", "!"}
        tb == {"X", "Y", "2"}
        tc == {"B", "Y", "1"}
    IN  {<<>>} \cup {<<a>> : a \in ta} \cup {<<a, b>> : a \in ta, b \in tb}
        \cup {<<a, b, c>> : a \in ta, b \in tb, c \in tc}

\* the probes: nothing, a back-reference, a character that is no token, or
\* an inline token, whole or cut short
Probes(k) ==
    {<<>>} \cup {<<c>> : c \in {"D", "E", "F", "G", "H", "I"}}
    \cup (IF k \in InlineCells
          THEN {<<c>> : c \in {"J", "a", "1", "!"}}
               \cup {<<c>> \o t : c \in {"A", "B", "C"}, t \in Trailing}
          ELSE {})

DecodeInit ==
    /\ \E k \in ProbeCells : \E p \in Probes(k) : iter = BaseStream(0, k) \o p
    /\ x = 0
    /\ y = 0
    /\ map = Map_new
    /\ decode_result = None
    /\ decode_pc = "loop"
    /\ written = {}

-----------------------------------------------------------------------------
(* The decoder as a state machine: one step per iteration of the inner loop *)

\* one iteration of `for x in 0..WIDTH` inside `for y in 0..HEIGHT`
Iterate ==
    LET r == decode_cell(iter, x, y, map)
    IN  /\ iter' = r.iter
        /\ IF r.err = None
           THEN /\ map' = r.map
                /\ x' = IF x + 1 < WIDTH THEN x + 1 ELSE 0
                /\ y' = IF x + 1 < WIDTH THEN y ELSE y + 1
                /\ written' = IF iter = <<>> THEN written ELSE written \cup {y * WIDTH + x}
                /\ UNCHANGED <<decode_result, decode_pc>>
           ELSE /\ decode_result' = Some(Err(r.err[1]))
                /\ decode_pc' = "returned"
                /\ UNCHANGED <<x, y, map, written>>
        /\ UNCHANGED not_decode_vars

\* iter.next() is None: nothing is done for this cell
DecodeExhausted ==
    /\ decode_pc = "loop" /\ y < HEIGHT
    /\ iter = <<>>
    /\ Iterate

DecodeInlineAC ==
    /\ decode_pc = "loop" /\ y < HEIGHT
    /\ iter # <<>> /\ Head(iter) \in {"A", "C"}
    /\ Iterate

DecodeInlineB ==
    /\ decode_pc = "loop" /\ y < HEIGHT
    /\ iter # <<>> /\ Head(iter) = "B"
    /\ Iterate

DecodeBackRef ==
    /\ decode_pc = "loop" /\ y < HEIGHT
    /\ iter # <<>> /\ Head(iter) \in {"D", "E", "F", "G", "H", "I"}
    /\ Iterate

DecodeUnexpected ==
    /\ decode_pc = "loop" /\ y < HEIGHT
    /\ iter # <<>> /\ Head(iter) \notin {"A", "B", "C", "D", "E", "F", "G", "H", "I"}
    /\ Iterate

\* both loops are over: Ok(map)
DecodeReturn ==
    /\ decode_pc = "loop" /\ y = HEIGHT
    /\ decode_result' = Some(Ok(map))
    /\ decode_pc' = "returned"
    /\ UNCHANGED <<iter, x, y, map, written>>
    /\ UNCHANGED not_decode_vars

DecodeNext ==
    \/ DecodeExhausted
    \/ DecodeInlineAC
    \/ DecodeInlineB
    \/ DecodeBackRef
    \/ DecodeUnexpected
    \/ DecodeReturn

-----------------------------------------------------------------------------
(* map.rs: Map::decode as a whole, the ads and Map::from_string *)

\* #[derive(Default)] on Map: no tiles, no ads
Map_default == [tiles |-> <<>>, ads |-> <<>>]

\* the iterations of the two loops for the cells lo .. hi - 1 in row-major
\* order (cell i is x = i % WIDTH, y = i / WIDTH): the first half of them,
\* then the second half from where the first half left the iterator and map
RECURSIVE decode_cells(_, _, _, _)
decode_cells(it, lo, hi, m) ==
    IF hi = lo + 1 THEN decode_cell(it, lo % WIDTH, lo \div WIDTH, m)
    ELSE CHOOSE out \in {IF r.err # None THEN r
                          ELSE decode_cells(r.iter, (lo + hi) \div 2, hi, r.map) :
                          r \in {decode_cells(it, lo, (lo + hi) \div 2, m)}} : TRUE

\* the two loops refusing a stream with characters left after the last cell
decode_loops_whole_stream(s) ==
    CHOOSE out \in {IF r.err = None /\ r.iter # <<>>
                     THEN Fail(Tail(r.iter), Unexpected(Head(r.iter)))
                     ELSE r :
                     r \in {decode_cells(s, 0, WIDTH * HEIGHT, Map_new)}} : TRUE

\* the two loops of Map::decode over all the cells: the iterator and the map
\* they end with, or the error they return with
decode_loops(s) == decode_cells(s, 0, WIDTH * HEIGHT, Map_new)

\* Map::decode
decode(s) ==
    CHOOSE out \in {IF r.err # None THEN Err(r.err[1]) ELSE Ok(r.map) :
                     r \in {decode_loops(s)}} : TRUE

\* the decimal digits of s without its leading zeros
RECURSIVE StripZeros(_)
StripZeros(s) == IF Len(s) > 0 /\ s[1] = "0" THEN StripZeros(Tail(s)) ELSE s

AllDigits(s) == \A i \in 1..Len(s) : is_digit(s[i])

\* the value of the digits d, which have no leading zero, as an i32 with the
\* sign neg: an error when it is not within -2147483648 .. 2147483647
i32_of(neg, d) ==
    IF Len(d) <= 9 THEN Ok(IF neg THEN -DigitsValue(d) ELSE DigitsValue(d))
    ELSE IF Len(d) > 10 \/ DigitsValue(SubSeq(d, 1, 9)) > 214748364
            \/ (DigitsValue(SubSeq(d, 1, 9)) = 214748364
                /\ Ord(d[10]) - Ord("0") > (IF neg THEN 8 ELSE 7))
         THEN Err("ParseIntError")
    ELSE Ok(IF neg THEN (-(DigitsValue(SubSeq(d, 1, 9)) * 10)) - (Ord(d[10]) - Ord("0"))
            ELSE DigitsValue(SubSeq(d, 1, 9)) * 10 + (Ord(d[10]) - Ord("0")))

\* the digits after the optional sign
Unsigned(s) == IF Len(s) > 0 /\ s[1] \in {"+", "-"} THEN Tail(s) ELSE s

\* str::parse::<i32>: an optional sign, then one or more decimal digits
parse_i32(s) ==
    IF Len(Unsigned(s)) = 0 \/ ~AllDigits(Unsigned(s)) THEN Err("ParseIntError")
    ELSE i32_of(s[1] = "-", StripZeros(Unsigned(s)))

\* enum AdSize, in declaration order
AdSize == <<"Small", "Medium", "Large", "Full">>

Ad(size, ax, ay) == [size |-> size, x |-> ax, y |-> ay]

\* #[from] ParseIntError
ParseIntError == <<"ParseIntError">>

\* the Ad of a chunk whose size code and coordinates were read
ad_of(first_char, size, ax, ay) ==
    IF size = None THEN Err(Unexpected(first_char))
    ELSE IF ~ax.ok THEN Err(ParseIntError)
    ELSE IF ~ay.ok THEN Err(ParseIntError)
    ELSE Ok(Ad(size[1], ax.val, ay.val))

\* ad_from_chunk with the size taken as the code minus one
ad_from_chunk_one_based(chunk) ==
    IF char_to_code(chunk[1]) = None THEN Err(Unexpected(chunk[1]))
    ELSE IF Len(chunk) # 5 THEN Err(UnexpectedEol)
    ELSE ad_of(chunk[1], from_i32(AdSize, char_to_code(chunk[1])[1] - 1),
               parse_i32(SubSeq(chunk, 2, 3)), parse_i32(SubSeq(chunk, 4, 5)))

\* ad_from_chunk with the two coordinate fields taken in the other order
ad_from_chunk_yx(chunk) ==
    IF char_to_code(chunk[1]) = None THEN Err(Unexpected(chunk[1]))
    ELSE IF Len(chunk) # 5 THEN Err(UnexpectedEol)
    ELSE ad_of(chunk[1], from_i32(AdSize, char_to_code(chunk[1])[1]),
               parse_i32(SubSeq(chunk, 4, 5)), parse_i32(SubSeq(chunk, 2, 3)))

\* the body of the loop of Ad::from_string for one chunk
ad_from_chunk(chunk) ==
    IF char_to_code(chunk[1]) = None THEN Err(Unexpected(chunk[1]))
    ELSE IF Len(chunk) # 5 THEN Err(UnexpectedEol)
    ELSE ad_of(chunk[1], from_i32(AdSize, char_to_code(chunk[1])[1]),
               parse_i32(SubSeq(chunk, 2, 3)), parse_i32(SubSeq(chunk, 4, 5)))

\* the loop of Ad::from_string over chunks(5), from character i on
RECURSIVE ads_from(_, _, _)
ads_from(input, i, parsed) ==
    IF i > Len(input) THEN Ok(parsed)
    ELSE CHOOSE out \in {IF ~ad.ok THEN ad
                          ELSE ads_from(input, i + 5, Append(parsed, ad.val)) :
                          ad \in {ad_from_chunk(SubSeq(input, i,
                                      IF i + 4 <= Len(input) THEN i + 4 ELSE Len(input)))}} : TRUE

Ad_from_string(input) == ads_from(input, 1, <<>>)

\* the literal that separates the tile stream from the ads
AdsSeparator == <<",", "A", "d", "s", ":">>

\* the first position from i on where pat occurs in s, 0 when it does not
Find(s, pat, i) ==
    IF \E j \in i..(Len(s) - Len(pat) + 1) : SubSeq(s, j, j + Len(pat) - 1) = pat
    THEN CHOOSE j \in i..(Len(s) - Len(pat) + 1) :
            /\ SubSeq(s, j, j + Len(pat) - 1) = pat
            /\ \A k \in i..(j - 1) : SubSeq(s, k, k + Len(pat) - 1) # pat
    ELSE 0

\* str::split: the pieces of s between the occurrences of pat
RECURSIVE Split(_, _)
Split(s, pat) ==
    IF Find(s, pat, 1) = 0 THEN <<s>>
    ELSE <<SubSeq(s, 1, Find(s, pat, 1) - 1)>>
         \o Split(SubSeq(s, Find(s, pat, 1) + Len(pat), Len(s)), pat)

\* split.next().unwrap_or("") for the i-th piece
piece_or_empty(pieces, i) == IF i <= Len(pieces) THEN pieces[i] ELSE <<>>

\* `map.ads = Ad::from_string(ads_str)?; Ok(map)`
map_with_ads(m, parsed) ==
    IF ~parsed.ok THEN parsed ELSE Ok([m EXCEPT !.ads = parsed.val])

\* the two `?` of Map::from_string, in their order
map_from_parts(m, ads_str) ==
    IF ~m.ok THEN m ELSE map_with_ads(m.val, Ad_from_string(ads_str))

\* Map::from_string
Map_from_string(input) ==
    map_from_parts(decode(decompress(piece_or_empty(Split(input, AdsSeparator), 1))),
                   piece_or_empty(Split(input, AdsSeparator), 2))

-----------------------------------------------------------------------------
(* track.rs: the Track record parser *)

\* ParseError
InvalidFormat == <<"InvalidFormat">>

\* #[from] MapError
MapError(e) == <<"MapError", e>>

\* str::splitn(2, sep): the text before the first sep and the text after it
splitn2(s, sep) ==
    IF Find(s, sep, 1) = 0 THEN <<s>>
    ELSE <<SubSeq(s, 1, Find(s, sep, 1) - 1),
           SubSeq(s, Find(s, sep, 1) + Len(sep), Len(s))>>

\* impl FromPrimitive for TrackTypeFlags
TrackTypeFlags_from_i32(n) ==
    CASE n = 1 -> Some("BASIC")
      [] n = 2 -> Some("TRADITIONAL")
      [] n = 3 -> Some("MODERN")
      [] n = 4 -> Some("HOLEINONE")
      [] n = 5 -> Some("SHORT")
      [] n = 6 -> Some("LONG")
      [] OTHER -> None

\* impl Default for Settings
Settings_default ==
    [magnets_visible |-> TRUE, mines_visible |-> FALSE, teleport_colors |-> FALSE,
     illusion_wall_shadows |-> FALSE, max_players |-> 1, min_players |-> 4]

\* the Settings of a six-character string whose two digits were parsed
settings_of(s, min_players, max_players) ==
    IF ~min_players.ok THEN Err(InvalidFormat)
    ELSE IF ~max_players.ok THEN Err(InvalidFormat)
    ELSE Ok([mines_visible |-> s[1] = "t",
             magnets_visible |-> s[2] = "t",
             teleport_colors |-> s[3] = "t",
             illusion_wall_shadows |-> s[4] = "t",
             min_players |-> min_players.val,
             max_players |-> max_players.val])

\* impl FromStr for Settings
Settings_from_str(s) ==
    IF Len(s) # 6 THEN Err(InvalidFormat)
    ELSE settings_of(s, parse_i32(<<s[5]>>), parse_i32(<<s[6]>>))

\* the pieces of a comma-separated list, each read with parse().unwrap_or(0)
IntsOf(pieces) == [i \in 1..Len(pieces) |-> unwrap_or(parse_i32(pieces[i]), 0)]

IntList(data) == IntsOf(Split(data, <<",">>))

\* the loop over the categories of a C section, from the i-th on
RECURSIVE categories_from(_, _, _)
categories_from(categories, i, flags) ==
    IF i > Len(categories) THEN Ok(flags)
    ELSE IF TrackTypeFlags_from_i32(categories[i]) = None THEN Err(InvalidFormat)
    ELSE categories_from(categories, i + 1,
                         flags \cup {TrackTypeFlags_from_i32(categories[i])[1]})

\* a <= b for two strings of decimal digits of the same length
RECURSIVE DigitsLeq(_, _)
DigitsLeq(a, b) ==
    IF Len(a) = 0 THEN TRUE
    ELSE IF Ord(a[1]) # Ord(b[1]) THEN Ord(a[1]) < Ord(b[1])
    ELSE DigitsLeq(Tail(a), Tail(b))

\* an i64 is kept as its sign and its decimal digits without leading zeros
I64(neg, digits) == [neg |-> neg /\ digits # <<>>, digits |-> digits]

\* the largest magnitude of an i64: 9223372036854775807, and one more when
\* it is negative
I64Limit(neg) ==
    <<"9", "2", "2", "3", "3", "7", "2", "0", "3", "6", "8", "5", "4",
      "7", "7", "5", "8", "0", IF neg THEN "8" ELSE "7">>

\* the value of the digits d, which have no leading zero, as an i64
i64_of(neg, d) ==
    IF Len(d) > 19 \/ (Len(d) = 19 /\ ~DigitsLeq(d, I64Limit(neg)))
    THEN Err("ParseIntError")
    ELSE Ok(I64(neg, d))

\* str::parse::<i64>
parse_i64(s) ==
    IF Len(Unsigned(s)) = 0 \/ ~AllDigits(Unsigned(s)) THEN Err("ParseIntError")
    ELSE i64_of(s[1] = "-", StripZeros(Unsigned(s)))

\* the last second chrono can represent, 8210266876799, and the first,
\* -8334601228800
TimestampLimit(neg) ==
    IF neg THEN <<"8", "3", "3", "4", "6", "0", "1", "2", "2", "8", "8", "0", "0">>
    ELSE <<"8", "2", "1", "0", "2", "6", "6", "8", "7", "6", "7", "9", "9">>

\* NaiveDateTime::from_timestamp_opt(secs, 0)
from_timestamp_opt(secs) ==
    IF Len(secs.digits) < 13
       \/ (Len(secs.digits) = 13 /\ DigitsLeq(secs.digits, TimestampLimit(secs.neg)))
    THEN Some(secs)
    ELSE None

Record(name, timestamp) == [name |-> name, timestamp |-> timestamp]

\* the Track from_reader starts from; NaiveDateTime::default() is second 0
Track_initial ==
    [version |-> 0, author |-> <<>>, name |-> <<>>, categories |-> {},
     settings |-> Settings_default, ratings |-> <<>>, stroke_info |-> <<>>,
     map |-> Map_default, record |-> Record(<<>>, I64(FALSE, <<>>))]

\* `track.f = r?` for a field f of the track t
assign(t, f, r) == IF r.ok THEN Ok([t EXCEPT ![f] = r.val]) ELSE r

\* Result::map_err(|_| e)
map_err(r, e) == IF r.ok THEN r ELSE Err(e)

\* "V" => track.version = data.parse().map_err(|_| InvalidFormat)?
section_V(t, data) == assign(t, "version", map_err(parse_i32(data), InvalidFormat))

\* "A" => track.author = data.to_string()
section_A(t, data) == Ok([t EXCEPT !.author = data])

\* "N" => track.name = data.to_string()
section_N(t, data) == Ok([t EXCEPT !.name = data])

\* "C": the categories, then a flag for each of them
section_C(t, data) ==
    assign(t, "categories", categories_from(IntList(data), 1, {}))

\* "S" => track.settings = Settings::from_str(data)?
section_S(t, data) ==
    assign(t, "settings", map_err(Settings_from_str(data), InvalidFormat))

\* the `?` on a Map::from_string result: its error as a ParseError
map_result(m) == IF m.ok THEN m ELSE Err(MapError(m.err))

\* "T" => track.map = Map::from_string(data)?
section_T(t, data) == assign(t, "map", map_result(Map_from_string(data)))

\* "R", and "I" alike: track.ratings
section_R(t, data) == Ok([t EXCEPT !.ratings = IntList(data)])

\* section_I pushing its ratings after those the track has
section_I_append(t, data) == Ok([t EXCEPT !.ratings = t.ratings \o IntList(data)])

section_I(t, data) == Ok([t EXCEPT !.ratings = IntList(data)])

\* an unknown section left out instead of refused
section_other_skip(t, data) == Ok(t)

\* `_ => return Err(InvalidFormat)`
section_other(t, data) == Err(InvalidFormat)

\* the record of a B section whose timestamp was parsed
record_of(t, name, timestamp) ==
    IF ~timestamp.ok THEN Err(InvalidFormat)
    ELSE IF from_timestamp_opt(timestamp.val) = None THEN Err(InvalidFormat)
    ELSE Ok([t EXCEPT !.record = Record(name, from_timestamp_opt(timestamp.val)[1])])

\* "B": a name, a comma and a timestamp
section_B(t, data) ==
    IF Len(splitn2(data, <<",">>)) # 2 THEN Err(InvalidFormat)
    ELSE record_of(t, splitn2(data, <<",">>)[1], parse_i64(splitn2(data, <<",">>)[2]))

-----------------------------------------------------------------------------
(* The parser as a state machine: one step per line *)

\* line.splitn(2, ' ') of the next line
Parts == splitn2(Head(lines), <<" ">>)

\* the next line is one of section sec
AtSection(sec) == track_pc = "loop" /\ lines # <<>> /\ Len(Parts) = 2 /\ Parts[1] = sec

\* the end of an iteration of `for line in lines` whose outcome is r: the
\* next line, or the return of the error
EndLine(r) ==
    /\ lines' = Tail(lines)
    /\ UNCHANGED file
    /\ IF r.ok
       THEN /\ track' = r.val
            /\ UNCHANGED <<track_result, track_pc>>
       ELSE /\ track_result' = Some(Err(r.err))
            /\ track_pc' = "returned"
            /\ UNCHANGED track
    /\ UNCHANGED not_track_vars

\* an empty line is skipped
TrackEmptyLine ==
    /\ track_pc = "loop" /\ lines # <<>> /\ Head(lines) = <<>>
    /\ \E r \in {Ok(track)} : EndLine(r)

\* a line without a space
TrackNoSpace ==
    /\ track_pc = "loop" /\ lines # <<>> /\ Head(lines) # <<>> /\ Len(Parts) # 2
    /\ \E r \in {Err(InvalidFormat)} : EndLine(r)

TrackVersion == AtSection(<<"V">>) /\ \E r \in {section_V(track, Parts[2])} : EndLine(r)

TrackAuthor == AtSection(<<"A">>) /\ \E r \in {section_A(track, Parts[2])} : EndLine(r)

TrackName == AtSection(<<"N">>) /\ \E r \in {section_N(track, Parts[2])} : EndLine(r)

TrackCategories == AtSection(<<"C">>) /\ \E r \in {section_C(track, Parts[2])} : EndLine(r)

TrackSettings == AtSection(<<"S">>) /\ \E r \in {section_S(track, Parts[2])} : EndLine(r)

TrackMap == AtSection(<<"T">>) /\ \E r \in {section_T(track, Parts[2])} : EndLine(r)

TrackRatings == AtSection(<<"R">>) /\ \E r \in {section_R(track, Parts[2])} : EndLine(r)

TrackBest == AtSection(<<"B">>) /\ \E r \in {section_B(track, Parts[2])} : EndLine(r)

TrackInfo == AtSection(<<"I">>) /\ \E r \in {section_I(track, Parts[2])} : EndLine(r)

\* `_ => return Err(InvalidFormat)`
TrackUnknown ==
    /\ track_pc = "loop" /\ lines # <<>> /\ Len(Parts) = 2
    /\ Parts[1] \notin {<<"V">>, <<"A">>, <<"N">>, <<"C">>, <<"S">>, <<"T">>,
                         <<"R">>, <<"B">>, <<"I">>}
    /\ \E r \in {section_other(track, Parts[2])} : EndLine(r)

\* the lines are over: Ok(track)
TrackReturn ==
    /\ track_pc = "loop" /\ lines = <<>>
    /\ track_result' = Some(Ok(track))
    /\ track_pc' = "returned"
    /\ UNCHANGED <<lines, track, file>>
    /\ UNCHANGED not_track_vars

TrackNext ==
    \/ TrackEmptyLine
    \/ TrackNoSpace
    \/ TrackVersion
    \/ TrackAuthor
    \/ TrackName
    \/ TrackCategories
    \/ TrackSettings
    \/ TrackMap
    \/ TrackRatings
    \/ TrackBest
    \/ TrackInfo
    \/ TrackUnknown
    \/ TrackReturn

\* the files the parser is run on hold at most MaxLines lines
MaxLines == 2

\* the lines of the files: every section with data that parses and data that
\* does not, a line without a space, an unknown section and an empty line
TrackLines == {
    <<>>,
    <<"V">>,
    <<"X", " ", "1">>,
    <<"V", " ", "2">>,
    <<"V", " ", "x">>,
    <<"A", " ", "m", "e">>,
    <<"N", " ", "a", " ", "b">>,
    <<"C", " ", "1", ",", "6">>,
    <<"C", " ", "7">>,
    <<"C", " ", "1", ",", "x">>,
    <<"S", " ", "t", "f", "t", "f", "1", "4">>,
    <<"S", " ", "t", "f">>,
    <<"S", " ", "t", "f", "t", "f", "x", "4">>,
    <<"R", " ", "1", ",", "-", "2">>,
    <<"R", " ", "x">>,
    <<"I", " ", "3">>,
    <<"I", " ", "4", ",", "y", ",", "5">>,
    <<"B", " ", "a", ",", "6", "0">>,
    <<"B", " ", "a">>,
    <<"B", " ", "a", ",", "x">>,
    <<"B", " ", "a", ",", "9", "9", "9", "9", "9", "9", "9", "9", "9", "9", "9", "9", "9", "9">>,
    <<"T", " ">>,
    <<"T", " ", "B", "3", "A", "4", "8", "D", "1", "1", "7", "6", "E">>,
    <<"T", " ", "C", "U", "A", ",", "A", "d", "s", ":", "B", "0", "1", "0", "2">>,
    <<"T", " ", "C", "U", "A", ",", "A", "d", "s", ":", "Z", "0", "1", "0", "2">>,
    <<"T", " ", "D">> }

\* the files of at most n lines
RECURSIVE TrackFiles(_)
TrackFiles(n) ==
    IF n = 0 THEN {<<>>}
    ELSE TrackFiles(n - 1) \cup {Append(f, l) : f \in TrackFiles(n - 1), l \in TrackLines}

TrackInit ==
    /\ lines \in TrackFiles(MaxLines)
    /\ file = lines
    /\ track = Track_initial
    /\ track_result = None
    /\ track_pc = "loop"

-----------------------------------------------------------------------------
(* Ad::from_string as a state machine: one step per chunk of chunks(5) *)

\* the chunk of chunks(5) that starts after the first n characters
chunk_after(input, n) ==
    SubSeq(input, n + 1, IF n + 5 <= Len(input) THEN n + 5 ELSE Len(input))

\* a chunk that gives an Ad: ads.push(Ad { size, x, y })
AdPush ==
    /\ ad_pc = "loop" /\ ad_pos < Len(ad_input)
    /\ \E ad \in {ad_from_chunk(chunk_after(ad_input, ad_pos))} :
          /\ ad.ok
          /\ ads' = Append(ads, ad.val)
    /\ ad_pos' = ad_pos + Len(chunk_after(ad_input, ad_pos))
    /\ UNCHANGED <<ad_input, ad_result, ad_pc>>
    /\ UNCHANGED not_ad_vars

\* a chunk one of whose `?` or whose length check returns the error
AdFail ==
    /\ ad_pc = "loop" /\ ad_pos < Len(ad_input)
    /\ \E ad \in {ad_from_chunk(chunk_after(ad_input, ad_pos))} :
          /\ ~ad.ok
          /\ ad_result' = Some(ad)
    /\ ad_pc' = "returned"
    /\ UNCHANGED <<ad_input, ad_pos, ads>>
    /\ UNCHANGED not_ad_vars

\* the chunks are over: Ok(ads)
AdReturn ==
    /\ ad_pc = "loop" /\ ad_pos >= Len(ad_input)
    /\ ad_result' = Some(Ok(ads))
    /\ ad_pc' = "returned"
    /\ UNCHANGED <<ad_input, ad_pos, ads>>
    /\ UNCHANGED not_ad_vars

AdNext == AdPush \/ AdFail \/ AdReturn

\* the ad strings are made of at most MaxChunks pieces
MaxChunks == 3

\* the pieces: chunks of every size letter, a size code out of range, a first
\* character without a code, signs and letters among the coordinates, and
\* pieces shorter than a chunk
AdPieces == {
    <<"A", "2", "3", "0", "9">>,
    <<"B", "2", "2", "0", "8">>,
    <<"C", "4", "0", "1", "9">>,
    <<"D", "0", "0", "9", "9">>,
    <<"E", "0", "1", "0", "2">>,
    <<"z", "0", "1", "0", "2">>,
    <<"!", "0", "1", "0", "2">>,
    <<"A", "+", "5", "-", "3">>,
    <<"B", "x", "1", "0", "9">>,
    <<"C", "2", "3", "7", "x">>,
    <<"A", "2", "3", "0">>,
    <<"B">> }

\* the strings of at most n pieces
RECURSIVE AdStrings(_)
AdStrings(n) ==
    IF n = 0 THEN {<<>>}
    ELSE AdStrings(n - 1) \cup {s \o piece : s \in AdStrings(n - 1), piece \in AdPieces}

AdInit ==
    /\ ad_input \in AdStrings(MaxChunks)
    /\ ad_pos = 0
    /\ ads = <<>>
    /\ ad_result = None
    /\ ad_pc = "loop"

-----------------------------------------------------------------------------
(* Magnets: src/magnet.rs *)

\* Map::TILESIZE
TILESIZE == 15

\* MagnetForces::MAGNETHEIGHT
MAGNETHEIGHT == (HEIGHT * TILESIZE) \div 5

\* MagnetForces::MAGNETWIDTH
MAGNETWIDTH == (WIDTH * TILESIZE) \div 5

\* Map::index_to_xy: the pair (x, y)
index_to_xy(index) == <<index % WIDTH, index \div WIDTH>>

\* struct Magnet
Magnet(repel, i) == [repel |-> repel, i |-> i]

\* The elements of a finite set of numbers, in increasing order.
RECURSIVE Ascending(_)
Ascending(S) ==
    IF S = {} THEN <<>>
    ELSE <<CHOOSE m \in S : \A n \in S : m <= n>>
         \o Ascending(S \ {CHOOSE m \in S : \A n \in S : m <= n})

\* the magnets at the (0-based) tile indices found, in the order found
magnets_at(tiles, found) ==
    [k \in 1..Len(found) |->
        Magnet(tiles[found[k] + 1].special = Some("MagnetRepel"), found[k])]

\* Magnet::extract_magnets: one magnet per tile whose special is MagnetAttract
\* or MagnetRepel, in the order of the tiles.
extract_magnets(tiles) ==
    magnets_at(tiles,
               Ascending({i \in 0..(Len(tiles) - 1) :
                            tiles[i + 1].special \in
                                {Some("MagnetAttract"), Some("MagnetRepel")}}))

\* |(strength * normalized_x) as i32| for a = |delta_x| and n = delta_x^2 +
\* delta_y^2 with 0 < n <= 127^2: the cast truncates (127 - d) * (a / d) with
\* d = sqrt(n), which is the largest k with (k + a) * d <= 127 * a, that is
\* (k + a)^2 * n <= (127 * a)^2.  (The f32 roundings of sqrt, division,
\* subtraction and product never move the product across an integer for
\* these operands.)  Found by bisection of lo..hi.
RECURSIVE strength_x(_, _, _, _)
strength_x(a, n, lo, hi) ==
    IF lo = hi THEN lo
    ELSE IF (((lo + hi + 1) \div 2) + a) * (((lo + hi + 1) \div 2) + a) * n
            <= (127 * a) * (127 * a)
         THEN strength_x(a, n, (lo + hi + 1) \div 2, hi)
         ELSE strength_x(a, n, lo, ((lo + hi + 1) \div 2) - 1)

\* |(strength * (1.0 - normalized_x)) as i32|: the cast truncates
\* (127 - d) * (1 - a / d) = 127 + a - (127 * a + n) / d, which is the largest
\* k with (127 * a + n) <= (127 + a - k) * d, that is
\* (127 * a + n)^2 <= (127 + a - k)^2 * n.
RECURSIVE strength_y(_, _, _, _)
strength_y(a, n, lo, hi) ==
    IF lo = hi THEN lo
    ELSE IF (127 * a + n) * (127 * a + n)
            <= (127 + a - ((lo + hi + 1) \div 2))
               * (127 + a - ((lo + hi + 1) \div 2)) * n
         THEN strength_y(a, n, (lo + hi + 1) \div 2, hi)
         ELSE strength_y(a, n, lo, ((lo + hi + 1) \div 2) - 1)

\* i32::abs
abs(v) == IF v < 0 THEN 0 - v ELSE v

\* force_x before the repel test; at distance 0 normalized_x is NaN and the
\* cast of NaN is 0
force_x(delta_x, n) ==
    IF n = 0 THEN 0
    ELSE IF delta_x < 0 THEN 0 - strength_x(abs(delta_x), n, 0, 127)
    ELSE strength_x(abs(delta_x), n, 0, 127)

\* force_y before the repel test
force_y(delta_x, delta_y, n) ==
    IF n = 0 THEN 0
    ELSE IF delta_y < 0 THEN 0 - strength_y(abs(delta_x), n, 0, 127)
    ELSE strength_y(abs(delta_x), n, 0, 127)

\* The repel test without the negation.
repel_force_same_sign(repel, fx, fy) == <<fx, fy>>

\* if magnet.repel { force_x = -force_x; force_y = -force_y; }
repel_force(repel, fx, fy) == IF repel THEN <<0 - fx, 0 - fy>> ELSE <<fx, fy>>

\* what one magnet adds to total_force, from the deltas and
\* n = delta_x^2 + delta_y^2: nothing when distance > 127.0
force_of(repel, delta_x, delta_y, n) ==
    IF n > 127 * 127 THEN <<0, 0>>
    ELSE repel_force(repel, force_x(delta_x, n), force_y(delta_x, delta_y, n))

\* delta_x and delta_y from the screen position of the magnet
delta_force(repel, screen_x, screen_y, at_x, at_y) ==
    force_of(repel, screen_x - at_x, screen_y - at_y,
             (screen_x - at_x) * (screen_x - at_x) + (screen_y - at_y) * (screen_y - at_y))

\* the pair (screen_x, screen_y) one pixel up and left of the centre
screen_off_centre(magnet) ==
    <<index_to_xy(magnet.i)[1] * TILESIZE + 7, index_to_xy(magnet.i)[2] * TILESIZE + 7>>

\* the pair (screen_x, screen_y): the centre of the tile of the magnet
screen(magnet) ==
    <<index_to_xy(magnet.i)[1] * TILESIZE + 8, index_to_xy(magnet.i)[2] * TILESIZE + 8>>

\* the body of "for magnet in magnets" for one magnet
magnet_force(magnet, at_x, at_y) ==
    delta_force(magnet.repel, screen(magnet)[1], screen(magnet)[2], at_x, at_y)

\* total_force after the magnets from the k-th on are added to acc
RECURSIVE total_force(_, _, _, _, _)
total_force(magnet_list, k, at_x, at_y, acc) ==
    IF k > Len(magnet_list) THEN acc
    ELSE total_force(magnet_list, k + 1, at_x, at_y,
                     <<acc[1] + magnet_force(magnet_list[k], at_x, at_y)[1],
                       acc[2] + magnet_force(magnet_list[k], at_x, at_y)[2]>>)

\* the number of values of (2..limit).step_by(5)
Steps(limit) == (limit - 2 + 4) \div 5

\* array_index with the row of get_force: y, not y / 5
array_index_pixel_row(at_x, at_y) == at_y * ((WIDTH * TILESIZE) \div 5) + (at_x \div 5)

\* array_index
array_index(at_x, at_y) == (at_y \div 5) * ((WIDTH * TILESIZE) \div 5) + (at_x \div 5)

\* forces[array_index] = total_force; an index out of the vector panics
write_force(fs, index, value) ==
    IF index < Len(fs) THEN Ok([fs EXCEPT ![index + 1] = value])
    ELSE Err("IndexOutOfBounds")

\* the body of the two loops for the sample point (x, y)
calculate_cell(fs, magnet_list, at_x, at_y) ==
    write_force(fs, array_index(at_x, at_y), total_force(magnet_list, 1, at_x, at_y, <<0, 0>>))

\* the iterations lo..hi-1 of the two loops, numbered row by row: iteration k
\* has x = 2 + 5 * (k % Steps(735)) and y = 2 + 5 * (k \div Steps(735))
RECURSIVE calculate_cells(_, _, _, _)
calculate_cells(fs, magnet_list, lo, hi) ==
    IF hi = lo + 1
    THEN calculate_cell(fs, magnet_list,
                        2 + 5 * (lo % Steps(WIDTH * TILESIZE)),
                        2 + 5 * (lo \div Steps(WIDTH * TILESIZE)))
    ELSE CHOOSE out \in {IF r.ok
                          THEN calculate_cells(r.val, magnet_list, (lo + hi) \div 2, hi)
                          ELSE r :
                          r \in {calculate_cells(fs, magnet_list, lo, (lo + hi) \div 2)}} : TRUE

\* MagnetForces::calculate_forces: Ok(forces), or Err when a write panics
calculate_forces(magnet_list) ==
    calculate_cells([i \in 1..(MAGNETWIDTH * MAGNETHEIGHT) |-> <<0, 0>>],
                    magnet_list, 0,
                    Steps(WIDTH * TILESIZE) * Steps(HEIGHT * TILESIZE))

\* Vec::get(index).cloned()
get_cloned(v, index) == IF index < Len(v) THEN Some(v[index + 1]) ELSE None

\* MagnetForces::get_force
get_force(fs, at_x, at_y) == get_cloned(fs, at_y * ((WIDTH * TILESIZE) \div 5) + (at_x \div 5))

\* The most magnets on a map.
MaxMagnets == 2

\* The magnet tiles a map may carry: tile index and special.
MagnetSites ==
    {<<48, "MagnetAttract">>, <<612, "MagnetAttract">>,
     <<613, "MagnetRepel">>, <<1176, "MagnetRepel">>}

\* The tiles of a map with the given magnet tiles and default tiles elsewhere.
tiles_with(sites) ==
    [i \in 1..(WIDTH * HEIGHT) |->
        IF \E s \in sites : s[1] + 1 = i
        THEN Tile(Some((CHOOSE s \in sites : s[1] + 1 = i)[2]), None, "Grass", "Grass")
        ELSE Tile_default]

\* The pixel coordinates asked of get_force.
PixelXs == {0, 4, 5, 7, 607, 730, 734, 735, 739, 740}

PixelYs == {0, 1, 2, 4, 5, 10, 74, 75, 372, 374, 375}

\* a map is loaded and its magnets are extracted
MagnetInit ==
    /\ \E sites \in {s \in SUBSET MagnetSites : Cardinality(s) <= MaxMagnets} :
          magnets = extract_magnets(tiles_with(sites))
    /\ forces = None
    /\ px = 0
    /\ py = 0
    /\ force = None
    /\ magnet_pc = "extracted"

\* MagnetForces::calculate_forces(&magnets)
CalculateForces ==
    /\ magnet_pc = "extracted"
    /\ \E r \in {calculate_forces(magnets)} :
          /\ forces' = (IF r.ok THEN Some(r.val) ELSE None)
          /\ magnet_pc' = (IF r.ok THEN "calculated" ELSE "panicked")
    /\ UNCHANGED <<magnets, px, py, force>>
    /\ UNCHANGED not_magnet_vars

\* forces.get_force(x, y)
GetForce ==
    /\ magnet_pc = "calculated"
    /\ \E at_x \in PixelXs, at_y \in PixelYs :
          /\ px' = at_x
          /\ py' = at_y
          /\ force' = get_force(forces[1], at_x, at_y)
    /\ magnet_pc' = "asked"
    /\ UNCHANGED <<magnets, forces>>
    /\ UNCHANGED not_magnet_vars

MagnetNext == CalculateForces \/ GetForce

-----------------------------------------------------------------------------
(* Shooting modes: src/stroke.rs *)

\* enum ShootingMode, in the order of its ordinals 0..3
ShootingMode == <<"Normal", "Reverse", "Right", "Left">>

\* Option::unwrap_or
Option_unwrap_or(o, d) == IF o = None THEN d ELSE o[1]

\* let i = (self as i32 + 1) % 4
next_ordinal(self) == (as_i32(ShootingMode, self) + 1) % 4

\* The ordinal one before, instead of one after.
next_backwards(self) ==
    Option_unwrap_or(from_i32(ShootingMode, (as_i32(ShootingMode, self) + 3) % 4),
                     "Normal")

\* ShootingMode::next
next(self) ==
    Option_unwrap_or(from_i32(ShootingMode, next_ordinal(self)), "Normal")

\* The most calls of next in one run.
MaxSteps == 31

\* a stroke starts in any mode
ModeInit ==
    /\ mode \in {ShootingMode[i] : i \in 1..Len(ShootingMode)}
    /\ mode_start = mode
    /\ mode_steps = 0

\* mode = mode.next()
ModeStep ==
    /\ mode_steps < MaxSteps
    /\ mode' = next(mode)
    /\ mode_steps' = mode_steps + 1
    /\ UNCHANGED mode_start
    /\ UNCHANGED not_mode_vars

ModeNext == ModeStep

-----------------------------------------------------------------------------
(* Map::decode as one call, on streams for the whole grid and more *)

\* a stream of n tokens: an inline token for cell (0, 0), then copies of the
\* tile to the left ('D') along the first row and of the tile above ('E')
GridStream(first, n) ==
    first \o repeat("D", IF n - 1 < WIDTH - 1 THEN n - 1 ELSE WIDTH - 1)
          \o repeat("E", IF n > WIDTH THEN n - WIDTH ELSE 0)

\* the inline tokens of cell (0, 0): a Normal tile, a Special tile, and an
\* 'A' token
FirstTokens == {<<"B", "b", "X", "B">>, <<"C", "A", "B">>, <<"A", "A", "A">>}

\* how many cells the streams encode before what follows: one less than the
\* grid, the whole grid
StreamCells == {WIDTH * HEIGHT - 1, WIDTH * HEIGHT}

\* what follows in the stream: nothing, tokens, characters that are no token
Followers ==
    {<<>>, <<"!">>, <<"J">>, <<"1">>, <<"a">>, <<"A">>, <<"B", "b">>,
     <<"D">>, <<"E">>, <<"I">>, <<"D", "!">>, <<"E", "E">>,
     <<"C", "A", "B">>, <<"B", "b", "X", "B">>, <<"C", "!", "B">>,
     <<"!", "!">>, <<"E", "J", "D">>}

\* Map::decode(s) is called
DecodeWholeInit ==
    /\ \E first \in FirstTokens, n \in StreamCells, rest \in Followers :
          iter = GridStream(first, n) \o rest
    /\ x = 0
    /\ y = 0
    /\ map = None
    /\ decode_result = None
    /\ decode_pc = "call"
    /\ written = {}

\* the whole of Map::decode: iter is left where the loops left the iterator
DecodeWhole ==
    /\ decode_pc = "call"
    /\ \E r \in {decode_loops(iter)} :
          /\ iter' = r.iter
          /\ decode_result' = Some(IF r.err # None THEN Err(r.err[1]) ELSE Ok(r.map))
    /\ decode_pc' = "returned"
    /\ UNCHANGED <<x, y, map, written>>
    /\ UNCHANGED not_decode_vars

DecodeWholeNext == DecodeWhole

-----------------------------------------------------------------------------
(* Specifications: one per component, the other components idle *)

TileIdle ==
    /\ tile = None
    /\ tile_code = None
    /\ fields = <<>>
    /\ tile_result = None
    /\ tile_pc = "idle"

RleIdle ==
    /\ rle_input = <<>>
    /\ rle_compressed = <<>>
    /\ rle_output = <<>>
    /\ rle_pc = "idle"

CharIdle == ch = " " /\ ch_code = None /\ ch_pc = "idle"

DecodeIdle ==
    /\ iter = <<>>
    /\ x = 0
    /\ y = 0
    /\ map = None
    /\ decode_result = None
    /\ decode_pc = "idle"
    /\ written = {}

TrackIdle ==
    /\ lines = <<>>
    /\ file = <<>>
    /\ track = None
    /\ track_result = None
    /\ track_pc = "idle"

AdIdle ==
    /\ ad_input = <<>>
    /\ ad_pos = 0
    /\ ads = <<>>
    /\ ad_result = None
    /\ ad_pc = "idle"

MagnetIdle ==
    /\ magnets = <<>>
    /\ forces = None
    /\ px = 0
    /\ py = 0
    /\ force = None
    /\ magnet_pc = "idle"

ModeIdle == mode = "Normal" /\ mode_start = "Normal" /\ mode_steps = 0

\* the components after the track parser are at rest
LaterIdle == AdIdle /\ MagnetIdle /\ ModeIdle

\* the components before the ad parser are at rest
EarlierIdle == TileIdle /\ RleIdle /\ CharIdle /\ DecodeIdle /\ TrackIdle

\* each component is checked with the others at rest
InitTile == TileInit /\ RleIdle /\ CharIdle /\ DecodeIdle /\ TrackIdle /\ LaterIdle

SpecTile == InitTile /\ [][TileNext]_vars

InitRle == RleInit /\ TileIdle /\ CharIdle /\ DecodeIdle /\ TrackIdle /\ LaterIdle

SpecRle == InitRle /\ [][RleNext]_vars

InitChar == CharInit /\ TileIdle /\ RleIdle /\ DecodeIdle /\ TrackIdle /\ LaterIdle

SpecChar == InitChar /\ [][CharNext]_vars

InitDecode == DecodeInit /\ TileIdle /\ RleIdle /\ CharIdle /\ TrackIdle /\ LaterIdle

SpecDecode == InitDecode /\ [][DecodeNext]_vars

InitDecodeWhole ==
    DecodeWholeInit /\ TileIdle /\ RleIdle /\ CharIdle /\ TrackIdle /\ LaterIdle

SpecDecodeWhole == InitDecodeWhole /\ [][DecodeWholeNext]_vars

\* the Tile codec and the decoder side by side
CodecInit ==
    /\ RleIdle
    /\ CharIdle
    /\ TrackIdle
    /\ LaterIdle
    /\ \/ TileInit /\ DecodeIdle
       \/ DecodeInit /\ TileIdle

CodecNext == TileNext \/ DecodeNext

SpecCodec == CodecInit /\ [][CodecNext]_vars

InitTrack == TrackInit /\ TileIdle /\ RleIdle /\ CharIdle /\ DecodeIdle /\ LaterIdle

SpecTrack == InitTrack /\ [][TrackNext]_vars

InitAds == AdInit /\ EarlierIdle /\ MagnetIdle /\ ModeIdle

SpecAds == InitAds /\ [][AdNext]_vars

InitMagnet == MagnetInit /\ EarlierIdle /\ AdIdle /\ ModeIdle

SpecMagnet == InitMagnet /\ [][MagnetNext]_vars

InitMode == ModeInit /\ EarlierIdle /\ AdIdle /\ MagnetIdle

SpecMode == InitMode /\ [][ModeNext]_vars

-----------------------------------------------------------------------------
(* Claims about the Tile codec *)

\* C1: Tile codec round trip: for every valid Tile (exactly one of special /
\* shape populated, any Shape or Special, any background and foreground),
\* from_tile_code(to_tile_code(tile)) succeeds and returns the original Tile.
C1_RoundTrip ==
    (tile # None /\ tile_pc = "done") => tile_result = Some(Ok(tile[1]))

\* a Tile carrying a Special has been encoded and decoded back
C1_Witness ==
    /\ tile # None
    /\ tile_pc = "done"
    /\ tile[1].special = Some("MagnetRepel")
    /\ tile[1].background = "Grass"
    /\ tile[1].foreground = "OnewayW"
    /\ tile_code = Some(34930711)
    /\ tile_result = Some(Ok(tile[1]))

\* the error the claim C3 names for four field values: the first failing
\* check in the order special, background, foreground, secondary
C3_Expected(f) ==
    IF f[1] \notin {1, 2} THEN Some(InvalidSpecial(f[1]))
    ELSE IF f[3] \notin 0..23 THEN Some(InvalidBackground(f[3]))
    ELSE IF f[4] \notin 0..23 THEN Some(InvalidForeground(f[4]))
    ELSE IF f[2] \notin 0..27 THEN Some(InvalidShape(f[2]))
    ELSE None

\* C3: decoding a tile code (or four field values) fails with
\* InvalidSpecial(v) when the top field v is neither 1 nor 2, otherwise with
\* InvalidBackground, otherwise InvalidForeground, otherwise InvalidShape for an
\* out-of-range ordinal; the first failing check in this order is the one
\* reported and no Tile is returned.
C3_ErrorOrder ==
    (tile = None /\ tile_pc = "done" /\ C3_Expected(fields) # None)
        => tile_result = Some(Err(C3_Expected(fields)[1]))

\* a code whose foreground and secondary bytes are both out of range has been
\* decoded: the foreground is the one reported
C3_Witness ==
    /\ tile = None
    /\ tile_code # None
    /\ tile_pc = "done"
    /\ fields = <<2, 28, 23, 24>>
    /\ tile_result = Some(Err(InvalidForeground(24)))

-----------------------------------------------------------------------------
(* Claims about the run-length compressor and the character codes *)

C4_DigitFree(s) == \A i \in 1..Len(s) : s[i] \notin {"0", "1", "2", "3", "4", "5", "6", "7", "8", "9"}

\* the length of the maximal run of equal characters of s that starts at i
C4_RunLen(s, i) ==
    (CHOOSE j \in (i + 1)..(Len(s) + 1) :
        /\ \A k \in i..(j - 1) : s[k] = s[i]
        /\ (j <= Len(s) => s[j] # s[i])) - i

\* the maximal runs of s from position i on, each written as its character,
\* prefixed by the decimal run length when the run is longer than 1
RECURSIVE C4_Runs(_, _)
C4_Runs(s, i) ==
    IF i > Len(s) THEN <<>>
    ELSE LET n == C4_RunLen(s, i)
         IN  (IF n > 1 THEN to_string(n) ELSE <<>>) \o <<s[i]>> \o C4_Runs(s, i + n)

\* C4: for every string s without a decimal digit,
\* decompress(compress(s)) = s; compress("") = ""; compress writes each
\* maximal run of equal characters as the character once, prefixed by the
\* decimal run length only when the run is longer than 1 ("aaab" -> "3ab").
C4_RleRoundTrip ==
    /\ (rle_pc \in {"decompress", "done"}) =>
          /\ rle_compressed = C4_Runs(rle_input, 1)
          /\ (rle_input = <<>> => rle_compressed = <<>>)
          /\ (rle_input = <<"a", "a", "a", "b">> => rle_compressed = <<"3", "a", "b">>)
    /\ (rle_pc = "done" /\ C4_DigitFree(rle_input)) => rle_output = rle_input

\* a digit-free string with a run of two-digit length and a single character
\* has been compressed and decompressed
C4_Witness ==
    /\ rle_pc = "done"
    /\ rle_input = repeat("a", 11) \o <<"b">>
    /\ rle_compressed = <<"1", "1", "a", "b">>
    /\ rle_output = rle_input

C10_Upper == <<"A", "B", "C", "D", "E", "F", "G", "H", "I", "J", "K", "L", "M",
               "N", "O", "P", "Q", "R", "S", "T", "U", "V", "W", "X", "Y", "Z">>

C10_Lower == <<"a", "b", "c", "d", "e", "f", "g", "h", "i", "j", "k", "l", "m",
               "n", "o", "p", "q", "r", "s", "t", "u", "v", "w", "x", "y", "z">>

\* the code the claim C10 gives a character
C10_Expected(c) ==
    IF \E i \in 1..26 : C10_Upper[i] = c
    THEN Some((CHOOSE i \in 1..26 : C10_Upper[i] = c) - 1)
    ELSE IF \E i \in 1..26 : C10_Lower[i] = c
    THEN Some((CHOOSE i \in 1..26 : C10_Lower[i] = c) + 25)
    ELSE None

\* C10: char_to_code maps 'A'..'Z' to 0..25 and 'a'..'z' to 26..51, is
\* injective on letters, and returns none for every other character.
C10_CharToCode ==
    /\ ch_pc = "done" => ch_code = Some(C10_Expected(ch))
    /\ Cardinality({char_to_code(c) : c \in Range(C10_Upper) \cup Range(C10_Lower)}) = 52

\* char_to_code has mapped 'z' to 51
C10_Witness == ch = "z" /\ ch_pc = "done" /\ ch_code = Some(Some(51))

-----------------------------------------------------------------------------
(* Claims about the map grid decoder *)

\* the decoder is about to run the loop body for cell (x, y) on token letter c
AtToken(c) == decode_pc = "loop" /\ y < HEIGHT /\ iter # <<>> /\ Head(iter) = c

\* the index of cell (cx, cy) in map.tiles
Cell(cx, cy) == cy * WIDTH + cx + 1

\* the loop goes on with the cell after (x, y)
NextCell ==
    /\ decode_pc' = "loop"
    /\ x' = (IF x = WIDTH - 1 THEN 0 ELSE x + 1)
    /\ y' = (IF x = WIDTH - 1 THEN y + 1 ELSE y)

\* the code the claims give a character, as a number (-1 when it has none)
Code(c) == IF C10_Expected(c) = None THEN -1 ELSE C10_Expected(c)[1]

\* C7: on 'B' followed by a, b, c with code(a) in 0..27 and code(b), code(c)
\* in 0..23, the decoder stores in the current cell the Normal tile with no
\* special, shape code(a), background code(b), foreground code(c); exactly 4
\* characters are consumed and no other cell changes.
C7_InlineB ==
    [][ ( /\ AtToken("B")
          /\ Len(iter) >= 4
          /\ Code(iter[2]) \in 0..27
          /\ Code(iter[3]) \in 0..23
          /\ Code(iter[4]) \in 0..23 )
        => ( /\ NextCell
             /\ iter' = SubSeq(iter, 5, Len(iter))
             /\ map' = [map EXCEPT !.tiles[Cell(x, y)] =
                           [special |-> <<>>,
                            shape |-> <<Shape[Code(iter[2]) + 1]>>,
                            background |-> Element[Code(iter[3]) + 1],
                            foreground |-> Element[Code(iter[4]) + 1]]] )
      ]_vars

\* the token "BbXB" has been decoded into cell (2, 2), whose neighbours hold
\* other tiles
C7_Witness ==
    /\ decode_pc = "loop"
    /\ x = 3 /\ y = 2
    /\ iter = <<>>
    /\ map.tiles[Cell(2, 2)] = [special |-> <<>>, shape |-> <<"QuaterNW">>,
                                background |-> "OnewayW", foreground |-> "Dirt"]
    /\ map.tiles[Cell(1, 2)] # map.tiles[Cell(2, 2)]

\* C6: on 'A' or 'C' followed by a, b with code(a) in 0..27 and code(b) in
\* 0..23, the decoder builds a Tile from (code(cur), code(a), code(b), 0),
\* stores it in the current cell (foreground Grass), consumes exactly 3
\* characters and continues with the next cell, for 'A' as well as for 'C'.
C6_InlineAC ==
    [][ ( /\ (AtToken("A") \/ AtToken("C"))
          /\ Len(iter) >= 3
          /\ Code(iter[2]) \in 0..27
          /\ Code(iter[3]) \in 0..23 )
        => ( /\ NextCell
             /\ decode_result' = <<>>
             /\ iter' = SubSeq(iter, 4, Len(iter))
             /\ map'.tiles[Cell(x, y)].foreground = "Grass"
             /\ map'.tiles[Cell(x, y)].background = Element[Code(iter[3]) + 1]
             /\ \/ map'.tiles[Cell(x, y)].special = <<Special[Code(iter[2]) + 1]>>
                \/ map'.tiles[Cell(x, y)].shape = <<Shape[Code(iter[2]) + 1]>> )
      ]_vars

\* the (row_offset, col_offset) pair the claim C8 gives a back-reference letter
C8_Offset(c) ==
    CASE c = "D" -> <<0, 1>> [] c = "E" -> <<1, 0>> [] c = "F" -> <<1, 1>>
      [] c = "G" -> <<0, 2>> [] c = "H" -> <<2, 0>> [] c = "I" -> <<2, 2>>

\* C8: a token 'D'..'I' at cell (x, y) uses the offsets D=(0,1), E=(1,0),
\* F=(1,1), G=(0,2), H=(2,0), I=(2,2).  If x >= col_offset and y >= row_offset
\* the current cell becomes a copy of the tile at (x-col_offset, y-row_offset),
\* whose index is strictly smaller and which an earlier token of this decode
\* has set; otherwise the decode fails with OutOfBounds and returns no map.
C8_BackRef ==
    [][ \A c \in {"D", "E", "F", "G", "H", "I"} :
          AtToken(c) =>
            LET row == C8_Offset(c)[1]
                col == C8_Offset(c)[2]
            IN  IF x >= col /\ y >= row
                THEN /\ NextCell
                     /\ decode_result' = <<>>
                     /\ iter' = Tail(iter)
                     /\ map' = [map EXCEPT !.tiles[Cell(x, y)] =
                                    map.tiles[Cell(x - col, y - row)]]
                     /\ Cell(x - col, y - row) < Cell(x, y)
                     /\ (Cell(x - col, y - row) - 1) \in written
                ELSE /\ decode_pc' = "returned"
                     /\ decode_result' = <<[ok |-> FALSE, err |-> <<"OutOfBounds">>]>>
      ]_vars

\* the token 'I' has copied the tile of cell (0, 0) into cell (2, 2); the
\* cells at the other offsets hold other tiles
C8_Witness ==
    /\ decode_pc = "loop"
    /\ x = 3 /\ y = 2
    /\ iter = <<>>
    /\ written = 0..(2 * WIDTH + 2)
    /\ map.tiles[Cell(2, 2)] = map.tiles[Cell(0, 0)]
    /\ map.tiles[Cell(2, 2)] \notin {map.tiles[Cell(1, 2)], map.tiles[Cell(2, 1)],
                                     map.tiles[Cell(1, 1)], map.tiles[Cell(0, 2)],
                                     map.tiles[Cell(2, 0)], map.tiles[Cell(3, 2)]}

\* C9: if the stream ends after an inline token letter ('A', 'B' or 'C') but
\* before all of its 2 (A/C) or 3 (B) trailing characters, the decode fails
\* with UnexpectedEol; if it ends between two cells (the empty stream
\* included) the decode succeeds, every cell decoded so far keeps its tile and
\* every remaining cell holds the default Tile (no special, Blank, Grass/Grass).
C9_EndOfInput ==
    /\ [][ ( \/ ((AtToken("A") \/ AtToken("C")) /\ Len(iter) < 3)
             \/ (AtToken("B") /\ Len(iter) < 4) )
           => ( /\ decode_pc' = "returned"
                /\ decode_result' = <<[ok |-> FALSE, err |-> <<"UnexpectedEol">>]>> )
         ]_vars
    /\ [][ (decode_pc = "loop" /\ iter = <<>>)
           => \/ decode_pc' = "loop" /\ decode_result' = <<>> /\ map' = map
              \/ decode_pc' = "returned" /\ decode_result' = <<[ok |-> TRUE, val |-> map]>>
         ]_vars
    /\ [] ( (decode_pc = "returned" /\ decode_result[1].ok)
            => \A i \in 1..(WIDTH * HEIGHT) :
                  (i - 1) \notin written
                  => decode_result[1].val.tiles[i] =
                        [special |-> <<>>, shape |-> <<"Blank">>,
                         background |-> "Grass", foreground |-> "Grass"] )

\* a stream that ends after the token of cell (0, 0): the loop has gone on
\* past cell (1, 0) without an error, cell (0, 0) keeps its tile and the
\* cells after it hold the default Tile
C9_Witness ==
    /\ decode_pc = "loop"
    /\ decode_result = <<>>
    /\ iter = <<>>
    /\ x = 2 /\ y = 0
    /\ written = {0}
    /\ map.tiles[Cell(0, 0)] = [special |-> <<>>, shape |-> <<"BigCircle">>,
                                background |-> "Dirt", foreground |-> "Mud"]
    /\ \A i \in 2..(WIDTH * HEIGHT) : map.tiles[i] = Tile_default

C2_ExactlyOne(t) == (t.special = <<>>) # (t.shape = <<>>)

\* C2: every Tile produced by from_i32s or from_tile_code, by Tile::default,
\* or stored in a cell of a Map returned by Map::decode (set by an inline
\* token, copied by a back-reference or left at its default) has exactly one
\* of special / shape populated; special is populated exactly when the
\* SpecialParse field was Special (2).
C2_SpecialXorShape ==
    /\ [] ( /\ C2_ExactlyOne(Tile_default)
            /\ (tile_pc = "done" /\ tile_result[1].ok)
               => /\ C2_ExactlyOne(tile_result[1].val)
                  /\ (tile_result[1].val.special # <<>>)
                        <=> ((IF fields # <<>> THEN fields[1]
                                               ELSE tile_code[1] \div 16777216) = 2)
            /\ (decode_pc = "returned" /\ decode_result[1].ok)
               => \A i \in 1..(WIDTH * HEIGHT) :
                     C2_ExactlyOne(decode_result[1].val.tiles[i]) )
    /\ [][ \A c \in {"A", "B", "C"} :
             (AtToken(c) /\ decode_pc' = "loop")
             => /\ C2_ExactlyOne(map'.tiles[Cell(x, y)])
                /\ (map'.tiles[Cell(x, y)].special # <<>>) <=> (Code(c) = 2)
         ]_vars

\* a map with a Special tile set by an inline token in cell (1, 0), its copy
\* made by 'D' in cell (2, 0), and a default tile after it
C2_Witness ==
    /\ decode_pc = "loop"
    /\ iter = <<>>
    /\ x = 3 /\ y = 0
    /\ written = {0, 1, 2}
    /\ map.tiles[Cell(1, 0)] = [special |-> <<"Hole">>, shape |-> <<>>,
                                background |-> "Dirt", foreground |-> "Grass"]
    /\ map.tiles[Cell(2, 0)] = map.tiles[Cell(1, 0)]
    /\ map.tiles[Cell(3, 0)] = Tile_default

\* c is one of the letters 'A'..'Z', 'a'..'z'
IsLetter(c) == \E i \in 1..Len(Letters) : Letters[i] = c

\* the first character of t that is no letter
FirstNonLetter(t) ==
    t[CHOOSE i \in 1..Len(t) :
        ~IsLetter(t[i]) /\ \A j \in 1..(i - 1) : IsLetter(t[j])]

\* the decode returns the error Unexpected(c), and so no map
ReturnsUnexpected(c) ==
    /\ decode_pc' = "returned"
    /\ decode_result' = <<[ok |-> FALSE, err |-> <<"Unexpected", c>>]>>

C21_WitnessToken ==
    /\ decode_pc = "returned"
    /\ decode_result = <<[ok |-> FALSE, err |-> <<"Unexpected", "J">>]>>
    /\ x = 0 /\ y = 0

\* how many characters the token that starts with c takes
TokenLength(c) == IF c \in {"A", "C"} THEN 3 ELSE IF c = "B" THEN 4 ELSE 1

\* how many characters of s are taken when n tokens are read after the first
\* pos characters, or Len(s) + 1 when s does not hold that many whole tokens
RECURSIVE AfterTokens(_, _, _)
AfterTokens(s, pos, n) ==
    IF pos >= Len(s) THEN Len(s) + 1
    ELSE IF n = 1
         THEN IF pos + TokenLength(s[pos + 1]) > Len(s) THEN Len(s) + 1
              ELSE pos + TokenLength(s[pos + 1])
    ELSE CHOOSE out \in {AfterTokens(s, mid, n - (n \div 2)) :
                          mid \in {AfterTokens(s, pos, n \div 2)}} : TRUE

\* decode returns for s what it returns for the first `taken` characters of
\* s, and leaves the other characters unread
SameAsPrefix(s, taken) ==
    /\ decode_pc' = "returned"
    /\ decode_result' = <<decode(SubSeq(s, 1, taken))>>
    /\ decode_result'[1].ok
    /\ iter' = SubSeq(s, taken + 1, Len(s))

\* C24: decode reads at most WIDTH * HEIGHT = 1225 tokens: a stream with
\* characters after its 1225th token, valid or not, whose first 1225 tokens
\* decode, decodes successfully to the same map as its 1225-token prefix, and
\* the characters after that prefix are not read.
C24_AtMostGrid ==
    [][ ( /\ decode_pc = "call"
          /\ AfterTokens(iter, 0, WIDTH * HEIGHT) < Len(iter)
          /\ decode(SubSeq(iter, 1, AfterTokens(iter, 0, WIDTH * HEIGHT))).ok )
        => SameAsPrefix(iter, AfterTokens(iter, 0, WIDTH * HEIGHT))
      ]_vars

\* a stream of 1225 tokens followed by '!' has been decoded: the map is
\* returned with the tile of the first token in its last cell, and '!' is
\* left unread
C24_Witness ==
    /\ decode_pc = "returned"
    /\ decode_result # <<>>
    /\ decode_result[1].ok
    /\ iter = <<"!">>
    /\ decode_result[1].val.tiles[WIDTH * HEIGHT] =
          [special |-> <<>>, shape |-> <<"QuaterNW">>,
           background |-> "OnewayW", foreground |-> "Dirt"]

-----------------------------------------------------------------------------
(* Claims about the size of the Map *)

\* C5: the Map is a fixed-size grid: the Map held by every Track the parser
\* returns successfully, for any sequence of section lines, with a T section
\* or without one, contains exactly WIDTH * HEIGHT = 1225 tiles, so that
\* get_tile(x, y) is defined for every x < 49 and y < 25.
C5_FixedGrid ==
    (track_pc = "returned" /\ track_result[1].ok) =>
        /\ Len(track_result[1].val.map.tiles) = WIDTH * HEIGHT
        /\ \A cx \in 0..(WIDTH - 1), cy \in 0..(HEIGHT - 1) :
              cy * WIDTH + cx + 1 \in DOMAIN track_result[1].val.map.tiles

-----------------------------------------------------------------------------
(* Claims about the ads *)

Digits == <<"0", "1", "2", "3", "4", "5", "6", "7", "8", "9">>

\* the value of a decimal digit
Digit(c) == CHOOSE d \in 0..9 : Digits[d + 1] = c

\* the value of the two-digit decimal field c1 c2
Field(c1, c2) == 10 * Digit(c1) + Digit(c2)

\* the number of chunks of the ad string, the last one possibly short
NumChunks == (Len(ad_input) + 4) \div 5

\* the j-th chunk of the ad string
AdChunk(j) ==
    SubSeq(ad_input, 5 * (j - 1) + 1, IF 5 * j <= Len(ad_input) THEN 5 * j ELSE Len(ad_input))

\* the four coordinate characters of a 5-character chunk are decimal digits
DigitCoords(c) == \A k \in 2..5 : c[k] \in Range(Digits)

\* the size code of a chunk's first character is one of the four sizes
SizeInRange(c) == char_to_code(c[1]) # None /\ char_to_code(c[1])[1] \in 0..3

\* C11 (as claimed): the size code is 1-based: code 1 yields Small, code 2
\* Medium, code 3 Large and code 4 Full; the remaining 4 characters are two
\* 2-digit decimal fields, x and then y.
C11_OneBased ==
    \A j \in 1..Len(ads) :
        /\ char_to_code(AdChunk(j)[1]) = Some(1) => ads[j].size = "Small"
        /\ char_to_code(AdChunk(j)[1]) = Some(2) => ads[j].size = "Medium"
        /\ char_to_code(AdChunk(j)[1]) = Some(3) => ads[j].size = "Large"
        /\ char_to_code(AdChunk(j)[1]) = Some(4) => ads[j].size = "Full"
        /\ DigitCoords(AdChunk(j)) =>
              /\ ads[j].x = Field(AdChunk(j)[2], AdChunk(j)[3])
              /\ ads[j].y = Field(AdChunk(j)[4], AdChunk(j)[5])

\* C11 (amended): the size code is 0-based: code 0 yields Small, code 1
\* Medium, code 2 Large and code 3 Full, and a chunk of one of these codes
\* with four digits is never refused; the remaining 4 characters are two
\* 2-digit decimal fields, x and then y.
C11_ZeroBased ==
    /\ ad_pc = "loop" => ad_pos = 5 * Len(ads)
    /\ \A j \in 1..Len(ads) :
          /\ char_to_code(AdChunk(j)[1]) = Some(0) <=> ads[j].size = "Small"
          /\ char_to_code(AdChunk(j)[1]) = Some(1) <=> ads[j].size = "Medium"
          /\ char_to_code(AdChunk(j)[1]) = Some(2) <=> ads[j].size = "Large"
          /\ char_to_code(AdChunk(j)[1]) = Some(3) <=> ads[j].size = "Full"
          /\ ads[j].size \in {"Small", "Medium", "Large", "Full"}
          /\ DigitCoords(AdChunk(j)) =>
                /\ ads[j].x = Field(AdChunk(j)[2], AdChunk(j)[3])
                /\ ads[j].y = Field(AdChunk(j)[4], AdChunk(j)[5])
    /\ (ad_pc = "returned" /\ ~ad_result[1].ok) =>
          ~ /\ Len(AdChunk(Len(ads) + 1)) = 5
            /\ SizeInRange(AdChunk(Len(ads) + 1))
            /\ DigitCoords(AdChunk(Len(ads) + 1))

\* a chunk of code 3 was parsed to a Full ad, after one of code 1
C11_Witness ==
    /\ ad_pc = "loop"
    /\ ad_input = <<"B", "2", "2", "0", "8", "D", "0", "0", "9", "9">>
    /\ ads = <<Ad("Medium", 22, 8), Ad("Full", 0, 99)>>

\* every chunk has 5 characters: a size letter and four digits
WellFormed ==
    /\ Len(ad_input) = 5 * NumChunks
    /\ \A j \in 1..NumChunks : AdChunk(j)[1] \in {"A", "B", "C", "D"} /\ DigitCoords(AdChunk(j))

\* the ads of the test of Ad::from_string
TestAds == <<Ad("Small", 23, 9), Ad("Medium", 22, 8), Ad("Large", 40, 19)>>

TestInput ==
    <<"A", "2", "3", "0", "9", "B", "2", "2", "0", "8", "C", "4", "0", "1", "9">>

\* C12: on a string of n well-formed 5-character chunks Ad::from_string
\* returns exactly n ads in input order, the ad of a chunk with x the decimal
\* value of its characters 2-3 and y that of its characters 4-5, and with size
\* Small, Medium or Large for a first character 'A', 'B' or 'C'; so
\* "A2309B2208C4019" yields (Small,23,9), (Medium,22,8), (Large,40,19).
C12_InOrder ==
    (ad_pc = "returned" /\ WellFormed) =>
        /\ ad_result[1].ok
        /\ Len(ad_result[1].val) = NumChunks
        /\ \A j \in 1..NumChunks :
              /\ ad_result[1].val[j].x = Field(AdChunk(j)[2], AdChunk(j)[3])
              /\ ad_result[1].val[j].y = Field(AdChunk(j)[4], AdChunk(j)[5])
              /\ AdChunk(j)[1] = "A" => ad_result[1].val[j].size = "Small"
              /\ AdChunk(j)[1] = "B" => ad_result[1].val[j].size = "Medium"
              /\ AdChunk(j)[1] = "C" => ad_result[1].val[j].size = "Large"
        /\ ad_input = TestInput => ad_result[1].val = TestAds

\* the string of the test was parsed
C12_Witness ==
    /\ ad_pc = "returned"
    /\ ad_input = TestInput
    /\ ad_result = Some(Ok(TestAds))

\* some chunk has a length other than 5, a first character whose size code
\* is out of range, or a non-digit among its 4 coordinate characters
Malformed ==
    \E j \in 1..NumChunks :
        \/ Len(AdChunk(j)) # 5
        \/ ~SizeInRange(AdChunk(j))
        \/ ~DigitCoords(AdChunk(j))

\* C13: malformed ad chunks fail the whole ad parse: whenever any chunk has
\* a length other than 5, a first character whose size code is out of range,
\* or a non-digit among its 4 coordinate characters, Ad::from_string returns
\* an error and no ads at all, those of earlier chunks included.
C13_MalformedFails ==
    (ad_pc = "returned" /\ Malformed) => ~ad_result[1].ok

-----------------------------------------------------------------------------
(* Claims about the Track record parser *)

\* the number of lines the parser has taken from the reader
Processed == Len(file) - Len(lines)

HasSpace(line) == \E i \in 1..Len(line) : line[i] = " "

\* the text of a line before its first space
SectionOf(line) ==
    SubSeq(line, 1, (CHOOSE i \in 1..Len(line) :
                        line[i] = " " /\ \A k \in 1..(i - 1) : line[k] # " ") - 1)

\* the text of a line after its first space
DataOf(line) == SubSeq(line, Len(SectionOf(line)) + 2, Len(line))

Sections == {<<"V">>, <<"A">>, <<"N">>, <<"C">>, <<"S">>, <<"T">>, <<"R">>, <<"B">>, <<"I">>}

\* a non-empty line without a space, or whose section is not a known one
MalformedLine(line) ==
    line # <<>> /\ (~HasSpace(line) \/ SectionOf(line) \notin Sections)

MalformedAt == {i \in 1..Len(file) : MalformedLine(file[i])}

FirstMalformed == CHOOSE i \in MalformedAt : \A k \in MalformedAt : i <= k

\* C14: no partial recovery for malformed lines: if some non-empty line has
\* a section that is not one of V, A, N, C, S, T, R, B, I, or no space,
\* from_reader returns an error and no Track, however many well-formed lines
\* precede or follow it; the error is the one of the first offending line in
\* file order, and the lines after that one are not processed.
C14_NoRecovery ==
    /\ track_pc = "loop" => (track_result = None /\ MalformedAt \cap 1..Processed = {})
    /\ lines = SubSeq(file, Processed + 1, Len(file))
    /\ (track_pc = "returned" /\ MalformedAt # {}) =>
          /\ ~track_result[1].ok
          /\ Processed >= 1
          /\ Processed <= FirstMalformed
          /\ Processed = FirstMalformed => track_result[1].err = InvalidFormat

\* a malformed line after a well-formed one and before another
C14_Witness ==
    /\ track_pc = "returned"
    /\ file = <<<<"V", " ", "2">>, <<"X", " ", "1">>>>
    /\ lines = <<>>
    /\ track_result = Some(Err(InvalidFormat))

\* a malformed first line: the line after it is left in the reader
C14_WitnessFollowed ==
    /\ track_pc = "returned"
    /\ file = <<<<"V">>, <<"A", " ", "m", "e">>>>
    /\ lines = <<<<"A", " ", "m", "e">>>>
    /\ track_result = Some(Err(InvalidFormat))

\* an optional sign and one or more decimal digits
IsInt(s) ==
    /\ Len(s) > 0
    /\ IF s[1] \in {"+", "-"}
       THEN Len(s) > 1 /\ \A k \in 2..Len(s) : s[k] \in Range(Digits)
       ELSE \A k \in 1..Len(s) : s[k] \in Range(Digits)

\* the value of a string of decimal digits
RECURSIVE Decimal(_)
Decimal(s) ==
    IF s = <<>> THEN 0 ELSE 10 * Decimal(SubSeq(s, 1, Len(s) - 1)) + Digit(s[Len(s)])

\* the value of an integer text
IntOf(s) ==
    IF s[1] = "-" THEN -Decimal(Tail(s))
    ELSE IF s[1] = "+" THEN Decimal(Tail(s))
    ELSE Decimal(s)

\* the texts between the commas of a list
Entries(data) == Split(data, <<",">>)

\* the data of a line of a known section holds a field that cannot be parsed
FieldFails(line) ==
    /\ line # <<>> /\ HasSpace(line)
    /\ CASE SectionOf(line) = <<"V">> -> ~IsInt(DataOf(line))
         [] SectionOf(line) = <<"C">> ->
               \E k \in 1..Len(Entries(DataOf(line))) :
                   \/ ~IsInt(Entries(DataOf(line))[k])
                   \/ IntOf(Entries(DataOf(line))[k]) \notin 1..6
         [] SectionOf(line) \in {<<"R">>, <<"I">>} ->
               \E k \in 1..Len(Entries(DataOf(line))) : ~IsInt(Entries(DataOf(line))[k])
         [] SectionOf(line) = <<"S">> ->
               \/ Len(DataOf(line)) # 6
               \/ DataOf(line)[5] \notin Range(Digits)
               \/ DataOf(line)[6] \notin Range(Digits)
         [] SectionOf(line) = <<"B">> ->
               \/ Len(Entries(DataOf(line))) < 2
               \/ ~parse_i64(splitn2(DataOf(line), <<",">>)[2]).ok
               \/ from_timestamp_opt(parse_i64(splitn2(DataOf(line), <<",">>)[2]).val) = None
         [] SectionOf(line) = <<"T">> -> ~Map_from_string(DataOf(line)).ok
         [] OTHER -> FALSE

\* C15: any field that fails to parse is fatal for the whole file: whenever
\* the data of a recognized section contains a field that cannot be parsed
\* (a non-integer V version, a non-integer or unknown category in C, a
\* non-integer entry in an R or I list, a bad Settings string in S, a
\* non-integer or invalid timestamp in B, undecodable map or ad data in T),
\* from_reader returns an error and no Track; it never substitutes a default
\* value for the field.
C15_FieldFatal ==
    (track_pc = "returned" /\ \E i \in 1..Len(file) : FieldFails(file[i])) =>
        ~track_result[1].ok

\* the lines of section R or I
RatingsAt ==
    {i \in 1..Len(file) :
        file[i] # <<>> /\ HasSpace(file[i]) /\ SectionOf(file[i]) \in {<<"R">>, <<"I">>}}

LastRatings == DataOf(file[CHOOSE i \in RatingsAt : \A k \in RatingsAt : k <= i])

\* C16: R and I write the same ratings field and the last one wins: after a
\* successful parse, track.ratings is the integer list of the last R or I
\* line in file order, replacing the list of any earlier one, and it is empty
\* when the file has no R or I line.
C16_LastWins ==
    (track_pc = "returned" /\ track_result[1].ok) =>
        IF RatingsAt = {} THEN track_result[1].val.ratings = <<>>
        ELSE /\ Len(track_result[1].val.ratings) = Len(Entries(LastRatings))
             /\ \A k \in 1..Len(Entries(LastRatings)) :
                   IsInt(Entries(LastRatings)[k]) =>
                       track_result[1].val.ratings[k] = IntOf(Entries(LastRatings)[k])

\* an I line after an R line: the ratings are those of the I line alone
C16_Witness ==
    /\ track_pc = "returned"
    /\ file = <<<<"R", " ", "1", ",", "-", "2">>, <<"I", " ", "3">>>>
    /\ track_result[1].ok
    /\ track_result[1].val.ratings = <<3>>

-----------------------------------------------------------------------------
(* Claims about the magnet force field *)

\* get_force has been asked for the pixel (px, py) of a calculated field
Asked == magnet_pc = "asked"

\* the force calculate_forces computes for the cell that contains the pixel
\* (at_x, at_y): the total force at the sample point of that cell
ContainingCellForce(at_x, at_y) ==
    total_force(magnets, 1, 5 * (at_x \div 5) + 2, 5 * (at_y \div 5) + 2, <<0, 0>>)

\* C17: for every pixel (x, y) inside the course (x < 735, y < 375),
\* get_force(x, y) on the result of calculate_forces is the force computed
\* for the cell of column x/5 and row y/5, the cell that contains the pixel.
C17_ContainingCell ==
    (Asked /\ px < WIDTH * TILESIZE /\ py < HEIGHT * TILESIZE)
        => force = Some(ContainingCellForce(px, py))

\* C18: get_force is none whenever the cell of the pixel is outside the grid,
\* that is whenever its column x/5 is at least MAGNETWIDTH or its row y/5 is
\* at least MAGNETHEIGHT.
C18_NoneOutside ==
    (Asked /\ (px \div 5 >= MAGNETWIDTH \/ py \div 5 >= MAGNETHEIGHT))
        => force = None

\* The truncation toward zero of the x share (127 - d) * a / d, for a = |dx|
\* and d = sqrt(n): the integer k with k <= share < k + 1.
ShareX(a, n) ==
    CHOOSE k \in 0..127 :
        /\ (k + a) * (k + a) * n <= (127 * a) * (127 * a)
        /\ (k + 1 + a) * (k + 1 + a) * n > (127 * a) * (127 * a)

\* The truncation toward zero of the y share (127 - d) * (1 - a / d), which
\* is 127 + a - (127 * a + n) / d: the integer k with k <= share < k + 1.
ShareY(a, n) ==
    CHOOSE k \in 0..127 :
        /\ (127 * a + n) * (127 * a + n) <= (127 + a - k) * (127 + a - k) * n
        /\ \/ 126 + a - k < 0
           \/ (127 * a + n) * (127 * a + n) > (126 + a - k) * (126 + a - k) * n

\* v with the sign of delta
Signed(delta, v) == IF delta < 0 THEN 0 - v ELSE v

\* v, negated for a repel magnet
Repelled(repel, v) == IF repel THEN 0 - v ELSE v

\* What the magnet m contributes at a sample point, from the deltas dx, dy
\* to the centre of the magnet: nothing when the distance is more than 127.
Shares(m, dx, dy, n) ==
    IF n > 127 * 127 THEN <<0, 0>>
    ELSE <<Repelled(m.repel, Signed(dx, ShareX(abs(dx), n))),
           Repelled(m.repel, Signed(dy, ShareY(abs(dx), n)))>>

\* the contribution of the magnet m at the sample point (sx, sy)
Contribution(m, sx, sy) ==
    Shares(m, (m.i % WIDTH) * 15 + 8 - sx, (m.i \div WIDTH) * 15 + 8 - sy,
           ((m.i % WIDTH) * 15 + 8 - sx) * ((m.i % WIDTH) * 15 + 8 - sx)
           + ((m.i \div WIDTH) * 15 + 8 - sy) * ((m.i \div WIDTH) * 15 + 8 - sy))

\* the sum of the contributions of the first k magnets
RECURSIVE SumOfShares(_, _, _)
SumOfShares(k, sx, sy) ==
    IF k = 0 THEN <<0, 0>>
    ELSE <<SumOfShares(k - 1, sx, sy)[1] + Contribution(magnets[k], sx, sy)[1],
           SumOfShares(k - 1, sx, sy)[2] + Contribution(magnets[k], sx, sy)[2]>>

\* one attract magnet at tile (48, 0) and one repel magnet at tile (0, 24)
TestMagnets ==
    /\ Len(magnets) = 2
    /\ index_to_xy(magnets[1].i) = <<48, 0>> /\ ~magnets[1].repel
    /\ index_to_xy(magnets[2].i) = <<0, 24>> /\ magnets[2].repel

\* C19: after calculate_forces the force of every cell is the sum, over the
\* magnets within distance 127 of the sample point of the cell, of the
\* truncated x share strength * |dx| / distance and y share
\* strength * (1 - |dx| / distance), signed by the sign of the delta and
\* negated for repel magnets; and for an attract magnet at tile (48, 0) with a
\* repel magnet at tile (0, 24) the force at index 121 is [5, 0] and the
\* force at index 10879 is [-29, 93].
C19_SumOfShares ==
    magnet_pc = "calculated" =>
        /\ \A c \in 0..(MAGNETWIDTH * MAGNETHEIGHT - 1) :
              forces[1][c + 1] = SumOfShares(Len(magnets),
                                             5 * (c % MAGNETWIDTH) + 2,
                                             5 * (c \div MAGNETWIDTH) + 2)
        /\ TestMagnets => /\ forces[1][121 + 1] = <<5, 0>>
                          /\ forces[1][10879 + 1] = <<-29, 93>>

\* the test's two magnets have their forces calculated
C19_Witness ==
    /\ magnet_pc = "calculated"
    /\ TestMagnets
    /\ forces[1][121 + 1] = <<5, 0>>
    /\ forces[1][10879 + 1] = <<-29, 93>>

\* a cell takes a force from two magnets at once
C19_WitnessTwoInRange ==
    /\ magnet_pc = "calculated"
    /\ Len(magnets) = 2
    /\ \E c \in {5506} :
          /\ Contribution(magnets[1], 5 * (c % MAGNETWIDTH) + 2,
                          5 * (c \div MAGNETWIDTH) + 2) # <<0, 0>>
          /\ Contribution(magnets[2], 5 * (c % MAGNETWIDTH) + 2,
                          5 * (c \div MAGNETWIDTH) + 2) # <<0, 0>>

\* the values of (2..limit).step_by(5)
SamplePoints(limit) == {v \in 2..(limit - 1) : v % 5 = 2}

\* the index the claims give the cell of the sample point (sx, sy)
CellIndex(sx, sy) == (sy \div 5) * MAGNETWIDTH + (sx \div 5)

\* the indices of the cells of the sample points
SampledCells ==
    {CellIndex(sx, sy) : sx \in SamplePoints(WIDTH * 15), sy \in SamplePoints(HEIGHT * 15)}

\* C22: the sample points (x, y), x in {2, 7, ...} below WIDTH * 15 and y in
\* {2, 7, ...} below HEIGHT * 15, map through (y / 5) * MAGNETWIDTH + x / 5
\* one-to-one onto the indices 0 .. MAGNETWIDTH * MAGNETHEIGHT - 1 (11025 of
\* them), which is where calculate_forces writes; no write is out of bounds,
\* the grid returned has exactly MAGNETWIDTH * MAGNETHEIGHT cells, and with
\* no magnets every cell is [0, 0].
C22_FullGrid ==
    /\ magnet_pc # "panicked"
    /\ magnet_pc = "calculated" =>
          /\ MAGNETWIDTH * MAGNETHEIGHT = 11025
          /\ SampledCells = 0..(MAGNETWIDTH * MAGNETHEIGHT - 1)
          /\ Cardinality(SamplePoints(WIDTH * 15)) * Cardinality(SamplePoints(HEIGHT * 15))
                = MAGNETWIDTH * MAGNETHEIGHT
          /\ \A sx \in SamplePoints(WIDTH * 15), sy \in {2, HEIGHT * 15 - 3} :
                array_index(sx, sy) = CellIndex(sx, sy)
          /\ Steps(WIDTH * TILESIZE) = Cardinality(SamplePoints(WIDTH * 15))
          /\ Steps(HEIGHT * TILESIZE) = Cardinality(SamplePoints(HEIGHT * 15))
          /\ Len(forces[1]) = MAGNETWIDTH * MAGNETHEIGHT
          /\ magnets = <<>> =>
                \A c \in 1..(MAGNETWIDTH * MAGNETHEIGHT) : forces[1][c] = <<0, 0>>

\* the forces of a map without magnets have been calculated: 11025 cells,
\* the last one [0, 0]
C22_Witness ==
    /\ magnet_pc = "calculated"
    /\ magnets = <<>>
    /\ Len(forces[1]) = 11025
    /\ forces[1][11025] = <<0, 0>>

\* v is one of the sample coordinates 2, 7, ... below limit
IsSample(v, limit) == v >= 2 /\ v < limit /\ v % 5 = 2

\* the squared distance from the centre of the magnet m to the point (sx, sy)
SquaredDistance(m, sx, sy) ==
    (screen(m)[1] - sx) * (screen(m)[1] - sx) + (screen(m)[2] - sy) * (screen(m)[2] - sy)

\* C23: for every magnet tile index in 0..1224 the centre
\* (tile_x * 15 + 8, tile_y * 15 + 8) of the magnet differs in at least one
\* axis from every sample point of the 5-unit grid starting at offset 2, so
\* the distance calculate_forces divides by is never zero; in particular it
\* is not zero for any magnet and sample point of a calculation.
C23_NeverZero ==
    /\ \A i \in 0..(WIDTH * HEIGHT - 1) :
          ~ ( /\ IsSample(screen(Magnet(FALSE, i))[1], WIDTH * 15)
              /\ IsSample(screen(Magnet(FALSE, i))[2], HEIGHT * 15) )
    /\ magnet_pc = "calculated" =>
          \A k \in 1..Len(magnets) :
             \A sx \in SamplePoints(WIDTH * 15) :
                \A sy \in {v \in SamplePoints(HEIGHT * 15) :
                             (screen(magnets[k])[2] - v) * (screen(magnets[k])[2] - v) <= 4} :
                   SquaredDistance(magnets[k], sx, sy) # 0

\* the forces of a magnet at tile (48, 0) have been calculated: the sample
\* point (727, 7) nearest to its centre (728, 8) is at squared distance 2
\* and holds the force of the magnet
C23_Witness ==
    /\ magnet_pc = "calculated"
    /\ magnets = <<Magnet(FALSE, 48)>>
    /\ SquaredDistance(magnets[1], 727, 7) = 2
    /\ forces[1][CellIndex(727, 7) + 1] = <<88, 36>>

-----------------------------------------------------------------------------
(* Claims about the shooting modes *)

\* the four values of ShootingMode
Modes == {"Normal", "Reverse", "Right", "Left"}

\* the mode after m in the cycle Normal -> Reverse -> Right -> Left -> Normal
After(m) ==
    CASE m = "Normal" -> "Reverse"
      [] m = "Reverse" -> "Right"
      [] m = "Right" -> "Left"
      [] m = "Left" -> "Normal"

\* next applied k times to m
RECURSIVE Applied(_, _)
Applied(m, k) == IF k = 0 THEN m ELSE next(Applied(m, k - 1))

\* C20: next is the 4-cycle Normal -> Reverse -> Right -> Left -> Normal: the
\* mode never leaves the four values, next of it is the mode after it in the
\* cycle and is not the fallback for an invalid ordinal, every mode is
\* reached from it within at most 3 applications of next, 4 applications
\* return to it, and a run is back at its starting mode after every 4 calls.
C20_Cycle ==
    /\ mode \in Modes
    /\ next(mode) = After(mode)
    /\ from_i32(ShootingMode, next_ordinal(mode)) # None
    /\ \A t \in Modes : \E k \in 0..3 : Applied(mode, k) = t
    /\ Applied(mode, 4) = mode
    /\ \A k \in 1..3 : Applied(mode, k) # mode
    /\ mode_steps % 4 = 0 => mode = mode_start
    /\ mode_steps % 4 # 0 => mode # mode_start
    /\ mode = Applied(mode_start, mode_steps % 4)

\* C20, for the steps: every call of next moves to the mode after the
\* current one in the cycle.
C20_Steps == [][mode' = After(mode)]_mode_vars

\* a run started in Left has called next 4 times and is back in Left, after
\* passing Normal
C20_Witness ==
    /\ mode_start = "Left"
    /\ mode_steps = 4
    /\ mode = "Left"
    /\ Applied(mode_start, 1) = "Normal"

=============================================================================
